---- MODULE Spec2Model ----
(***************************************************************************)
(* A model of the schemathesis execution engine: the result model          *)
(* (TestResult / TestResultSet), the per-endpoint run loop (run_test,      *)
(* network_test, run_checks), the dependency resolver                      *)
(* (check_if_change_required / check_if_storing_required) and the entry    *)
(* point (prepare / execute_from_schema / BaseRunner.execute).             *)
(***************************************************************************)
EXTENDS Integers, Sequences, FiniteSets, TLC

VARIABLES
    pc,        \* position of the prepare(...) call / event generator
    args,      \* arguments of the prepare(...) call: loader, schema type, exit_first, execute_in_order, schema endpoints
    escaped,   \* exception that escaped prepare(...) or its generator ("none" if none)
    stream,    \* events yielded by the generator returned by prepare(...)
    inner,     \* events yielded by run_test to BaseRunner.execute (the _execute stream)
    results,   \* TestResultSet.results
    result,    \* the TestResult under construction
    idx,       \* number of endpoints taken from the schema so far
    seen,      \* kinds of exception raised by the cases of the running test
    steps,     \* number of cases executed (of operations applied, in the TestResultSet scenario) so far
    store,     \* the DependencyStore
    lastRun,   \* history: the last network_test call
    lastPost,  \* history: body of the last POST /notes response with a storeable status
    input,     \* the arguments of the function called in the function scenario
               \* (the results of the workers and their progress, in the worker scenario)
    output     \* what that call returned

vars == <<pc, args, escaped, stream, inner, results, result, idx, seen, steps, store, lastRun, lastPost, input, output>>

-----------------------------------------------------------------------------
(* Bounds *)

MaxEndpoints == 2   \* endpoints in the loaded schema
MaxCases == 2       \* cases executed in one run
MaxOps == 5         \* operations applied in the TestResultSet scenario
MaxChecks == 2      \* check functions given to run_checks in the function scenario
MaxDepth == 2       \* nesting depth of the values given to is_multipart
MaxWorkers == 2     \* worker threads sharing one TestResultSet

-----------------------------------------------------------------------------
(* Values *)

StoreableMax == 204

\* the largest status code whose response is recorded as "Success" (run_checks)
SuccessMax == 204

EmptyDict == [x \in {} |-> "null"]

\* An Optional[dict]: None, or a mapping.
NoneDict == [none |-> TRUE, d |-> EmptyDict]
Dict(f) == [none |-> FALSE, d |-> f]

\* Python truthiness of an Optional[dict]
Truthy(x) == ~x.none /\ DOMAIN x.d # {}

\* dict[key] = value
DictSet(f, k, v) == [x \in DOMAIN f \cup {k} |-> IF x = k THEN v ELSE f[x]]

\* str.lower() on the method names, paths and header names in use
Lower(s) == CASE s = "POST" -> "post"
              [] s = "GET" -> "get"
              [] s = "User-Agent" -> "user-agent"
              [] s = "X-Request-Id" -> "x-request-id"
              [] s = "Authorization" -> "authorization"
              [] OTHER -> s

\* path.lower() on a path given as its segments
LowerPath(p) == [i \in DOMAIN p |-> Lower(p[i])]

\* method + ":" + path
Key(method, path) == <<method, path>>

NotesPath == <<"notes">>
NotePath == <<"notes", "{note_id}">>
ItemsPath == <<"items">>

\* Endpoints of the schema; `body` tells whether endpoint.body is not None
PostNotes == [method |-> "POST", path |-> NotesPath, body |-> TRUE]
GetNote == [method |-> "GET", path |-> NotePath, body |-> FALSE]
GetItems == [method |-> "GET", path |-> ItemsPath, body |-> TRUE]

Endpoints == {PostNotes, GetNote, GetItems}

\* Case(endpoint, path_parameters, headers, query, body)
Case(e, pp, h, q, b) ==
    [endpoint |-> e, path_parameters |-> pp, headers |-> h, query |-> q, body |-> b]

GeneratedHeaders == [h \in {"User-Agent", "X-Request-Id"} |-> "gen"]

\* the case the strategy generates for an endpoint
GeneratedCase(e) ==
    IF e = PostNotes THEN Case(e, NoneDict, Dict(GeneratedHeaders), NoneDict, Dict([title |-> "gen"]))
    ELSE IF e = GetNote THEN Case(e, Dict([note_id |-> "gen"]), NoneDict, NoneDict, NoneDict)
    ELSE Case(e, NoneDict, NoneDict, NoneDict, Dict([title |-> "gen"]))

\* The test of an endpoint: the InvalidSchema that _get_case_strategy raises for
\* a GET endpoint with a body when the schema is validated, else a Hypothesis test.
make_test_or_exception_unvalidated(endpoint, validate_schema) == "test"

make_test_or_exception(endpoint, validate_schema) ==
    IF validate_schema /\ endpoint.method = "GET" /\ endpoint.body
    THEN "InvalidSchema"
    ELSE "test"

NoCase == Case(GetItems, NoneDict, NoneDict, NoneDict, NoneDict)

-----------------------------------------------------------------------------
(* TestResult and TestResultSet (models.py) *)

\* message is <<>> for None, <<text>> for a message
Check(name, value, example, message) ==
    [name |-> name, value |-> value, example |-> example, message |-> message]

TestResult(e) ==
    [endpoint |-> e, checks |-> <<>>, errors |-> <<>>, interactions |-> <<>>, is_errored |-> FALSE]

mark_errored(r) == [r EXCEPT !.is_errored = TRUE]

has_errors(r) == Len(r.errors) > 0

has_failures(r) == \E i \in 1..Len(r.checks) : r.checks[i].value = "failure"

add_success(r, name, example) ==
    [r EXCEPT !.checks = Append(@, Check(name, "success", example, <<>>))]

add_failure(r, name, example, message) ==
    [r EXCEPT !.checks = Append(@, Check(name, "failure", example, <<message>>))]

add_error(r, exception, example) ==
    [r EXCEPT !.errors = Append(@, [exception |-> exception, example |-> example])]

\* store_requests_response(case, response), store_wsgi_response(case, response, elapsed);
\* neither network_test nor wsgi_test calls them
store_response_interaction(r, case, response) ==
    [r EXCEPT !.interactions = Append(@, [request |-> case, response |-> response])]

is_passed(r) == ~has_errors(r) /\ ~has_failures(r)

is_failed(r) == has_failures(r) /\ ~r.is_errored

is_errored_result(r) == has_errors(r) \/ r.is_errored

passed_count(rs) == Cardinality({i \in 1..Len(rs) : is_passed(rs[i])})

failed_count(rs) == Cardinality({i \in 1..Len(rs) : is_failed(rs[i])})

errored_count(rs) == Cardinality({i \in 1..Len(rs) : is_errored_result(rs[i])})

\* list.append writing at the length the list had when the worker loaded it
list_append_at_loaded_length(current, loaded, item) == Append(SubSeq(current, 1, loaded), item)

\* list.append(item) on the list object self.results: one atomic step on the
\* list as it is when the call runs, whatever its length was when the worker
\* loaded the attribute
list_append(current, loaded, item) == Append(current, item)

append(rs, item) == list_append(rs, Len(rs), item)

-----------------------------------------------------------------------------
(* DependencyStore *)

\* store_result(key, field, value): unconditionally overwrites
store_result(st, key, field, value) == DictSet(st, <<key, field>>, value)

\* get_store_result(key, field) fails with MissingDependency on an unset entry
is_stored(st, key, field) == <<key, field>> \in DOMAIN st

get_store_result(st, key, field) == st[<<key, field>>]

-----------------------------------------------------------------------------
(* Responses *)

\* response.text: not JSON, a JSON array, or a JSON object
NonJson == [kind |-> "nonjson", d |-> EmptyDict]
JsonArray == [kind |-> "array", d |-> EmptyDict]
JsonObject(f) == [kind |-> "object", d |-> f]

Texts == {NonJson, JsonArray, JsonObject(EmptyDict),
          JsonObject([id |-> "id1"]), JsonObject([id |-> "id2"])}

StatusCodes == {200, 404}

\* response.elapsed.total_seconds()
Elapsed == {1}

Responses == [status_code : StatusCodes, text : Texts, elapsed : Elapsed]

\* json.loads(response.text).get(field, None), where it does not raise
json_get(text, field) == IF field \in DOMAIN text.d THEN text.d[field] ELSE "null"

-----------------------------------------------------------------------------
(* The execute_in_order dependency map *)

Rule(required, to_store) == [required |-> required, store |-> to_store]

Depends(typ, field, method, path, producer_field) ==
    [typ |-> typ, field |-> field, depends |-> <<method, path, producer_field>>]

\* {"post:/notes": {"store": ["id"]},
\*  "get:/notes/{note_id}": {"required": {"path_parameters": {"note_id": "post:/notes:id"}}}}
NotesMap ==
    [k \in {Key("post", NotesPath), Key("get", NotePath)} |->
        IF k = Key("post", NotesPath)
        THEN Rule(<<>>, <<"id">>)
        ELSE Rule(<<Depends("path_parameters", "note_id", "post", NotesPath, "id")>>, <<>>)]

NoRules == [k \in {} |-> Rule(<<>>, <<>>)]

ExecuteInOrder(name) ==
    CASE name = "none" -> [none |-> TRUE, d |-> NoRules]
      [] name = "empty" -> [none |-> FALSE, d |-> NoRules]
      [] OTHER -> [none |-> FALSE, d |-> NotesMap]

\* '/notes' in path
ContainsNotes(path) == \E i \in DOMAIN path : path[i] = "notes"

-----------------------------------------------------------------------------
(* update_case_header (core.py) *)

\* session.headers as get_session leaves them, a case-insensitive mapping kept
\* here under lower-cased names
SessionHeaders == [h \in {"user-agent"} |-> "schemathesis"]

update_case_header_merge(case, session_headers) ==
    [case |-> [case EXCEPT !.headers =
                  Dict([h \in DOMAIN @.d \cup DOMAIN session_headers |->
                           IF h \in DOMAIN session_headers THEN session_headers[h] ELSE @.d[h]])],
     session_headers |-> session_headers]

\* returns case, session
update_case_header(case, session_headers) ==
    [case |-> IF Truthy(case.headers)
              THEN [case EXCEPT !.headers.d =
                       [h \in DOMAIN @ |-> IF Lower(h) \in DOMAIN session_headers
                                           THEN session_headers[Lower(h)]
                                           ELSE @[h]]]
              ELSE case,
     session_headers |-> session_headers]

-----------------------------------------------------------------------------
(* check_if_change_required (core.py) *)

Resolution(case, raised, missing) == [case |-> case, raised |-> raised, missing |-> missing]

\* case.<typ>[field] = value
SetField(case, typ, field, value) ==
    CASE typ = "path_parameters" -> [case EXCEPT !.path_parameters.d = DictSet(@, field, value)]
      [] typ = "query" -> [case EXCEPT !.query.d = DictSet(@, field, value)]
      [] OTHER -> [case EXCEPT !.body.d = DictSet(@, field, value)]

FieldIsNone(case, typ) ==
    CASE typ = "path_parameters" -> case.path_parameters.none
      [] typ = "query" -> case.query.none
      [] OTHER -> case.body.none

\* The loops over execute_in_order[key]['required'], from rule i on.  The first
\* exception leaves the loops; the fields already overwritten stay overwritten.
RECURSIVE ApplyRequired(_, _, _, _)
ApplyRequired(case, required, i, st) ==
    IF i > Len(required) THEN Resolution(case, "none", FALSE)
    ELSE LET r == required[i]
             key == Key(r.depends[1], r.depends[2])
         IN IF r.typ \notin {"path_parameters", "query", "body"}
            THEN ApplyRequired(case, required, i + 1, st)
            ELSE IF ~is_stored(st, key, r.depends[3])
            THEN Resolution(case, "MissingDependency", TRUE)
            ELSE IF FieldIsNone(case, r.typ)
            THEN Resolution(case, "TypeError", FALSE)
            ELSE ApplyRequired(SetField(case, r.typ, r.field, get_store_result(st, key, r.depends[3])),
                               required, i + 1, st)

check_if_change_required(case, execute_in_order, st) ==
    LET path == LowerPath(case.endpoint.path)
        method == Lower(case.endpoint.method)
        key == Key(method, path)
    IN IF Truthy(execute_in_order)
       THEN IF key \in DOMAIN execute_in_order.d /\ Len(execute_in_order.d[key].required) > 0
            THEN LET res == ApplyRequired(case, execute_in_order.d[key].required, 1, st)
                 IN \* except Exception: pass
                    Resolution(res.case, "none", res.missing)
            ELSE Resolution(case, "none", FALSE)
       ELSE IF ContainsNotes(path) /\ Truthy(case.path_parameters)
                 /\ "note_id" \in DOMAIN case.path_parameters.d
       THEN IF is_stored(st, Key("post", NotesPath), "id")
            THEN Resolution(SetField(case, "path_parameters", "note_id",
                                     get_store_result(st, Key("post", NotesPath), "id")), "none", FALSE)
            ELSE Resolution(case, "MissingDependency", TRUE)
       ELSE IF path = NotesPath /\ method = "post"
       THEN IF case.body.none
            THEN Resolution(case, "TypeError", FALSE)
            ELSE Resolution(SetField(case, "body", "ref", "timestamp"), "none", FALSE)
       ELSE Resolution(case, "none", FALSE)

-----------------------------------------------------------------------------
(* check_if_storing_required (core.py) *)

Storing(st, raised) == [store |-> st, raised |-> raised]

\* The loop over execute_in_order[key]['store'], from field i on.
RECURSIVE StoreAll(_, _, _, _, _)
StoreAll(st, key, to_store, i, text) ==
    IF i > Len(to_store) THEN Storing(st, "none")
    ELSE IF text.kind = "nonjson" THEN Storing(st, "JSONDecodeError")
    ELSE IF text.kind # "object" THEN Storing(st, "AttributeError")
    ELSE StoreAll(store_result(st, key, to_store[i], json_get(text, to_store[i])),
                  key, to_store, i + 1, text)

\* check_if_storing_required with the status comparison inverted
check_if_storing_required_inverted(case, response, execute_in_order, st) ==
    LET path == LowerPath(case.endpoint.path)
        method == Lower(case.endpoint.method)
        key == Key(method, path)
    IN IF Truthy(execute_in_order)
       THEN IF /\ key \in DOMAIN execute_in_order.d
               /\ Len(execute_in_order.d[key].store) > 0
               /\ response.status_code > StoreableMax
            THEN Storing(StoreAll(st, key, execute_in_order.d[key].store, 1, response.text).store, "none")
            ELSE Storing(st, "none")
       ELSE IF path = NotesPath /\ method = "post"
       THEN StoreAll(st, key, <<"id">>, 1, response.text)
       ELSE Storing(st, "none")

check_if_storing_required(case, response, execute_in_order, st) ==
    LET path == LowerPath(case.endpoint.path)
        method == Lower(case.endpoint.method)
        key == Key(method, path)
    IN IF Truthy(execute_in_order)
       THEN IF /\ key \in DOMAIN execute_in_order.d
               /\ Len(execute_in_order.d[key].store) > 0
               /\ response.status_code <= StoreableMax
            THEN \* except Exception: pass
                 Storing(StoreAll(st, key, execute_in_order.d[key].store, 1, response.text).store, "none")
            ELSE Storing(st, "none")
       ELSE IF path = NotesPath /\ method = "post"
       THEN StoreAll(st, key, <<"id">>, 1, response.text)
       ELSE Storing(st, "none")

-----------------------------------------------------------------------------
(* run_checks and network_test (core.py) *)

\* checks = DEFAULT_CHECKS
CheckList == <<"not_a_server_error">>

CheckNames == {CheckList[i] : i \in DOMAIN CheckList}

\* str(exc) of the AssertionError that the failing check `name` raises
FailureMessage(name) == <<name, "failed">>

\* The loop of run_checks from check i on; `fails` are the checks that raise AssertionError.
RECURSIVE RunChecksFrom(_, _, _, _, _)
RunChecksFrom(r, case, checks, i, fails) ==
    IF i > Len(checks) THEN r
    ELSE RunChecksFrom(IF checks[i] \in fails
                       THEN add_failure(r, checks[i], case, FailureMessage(checks[i]))
                       ELSE add_success(r, checks[i], case),
                       case, checks, i + 1, fails)

\* errors: the AssertionErrors collected by the loop, in list order
RunChecksErrors(checks, fails) ==
    SelectSeq([i \in DOMAIN checks |-> checks[i]], LAMBDA c : c \in fails)

\* What add_status_code, add_response_error_result and add_response_elapsed_time
\* are given; the fields they write are not declared by TestResult of models.py.
NotRecorded == [status_code |-> 0, response_error_result |-> [kind |-> "none", text |-> NonJson],
                elapsed_time |-> <<0, "none">>]

Recorded(response) ==
    [status_code |-> response.status_code,
     response_error_result |->
         IF response.status_code > SuccessMax
         THEN [kind |-> IF response.text.kind = "nonjson" THEN "text" ELSE "json",
               text |-> response.text]
         ELSE [kind |-> "Success", text |-> NonJson],
     elapsed_time |-> <<response.elapsed, "sec">>]

\* raise get_grouped_exception(*errors): one exception, an AssertionError
get_grouped_exception(errors) == [exception |-> "AssertionError", grouped |-> errors]

run_checks_short_circuit(case, checks, r, response, fails) ==
    LET errors == RunChecksErrors(checks, fails)
        failing == {i \in DOMAIN checks : checks[i] \in fails}
        upto == IF failing = {} THEN Len(checks)
                ELSE CHOOSE i \in failing : \A j \in failing : i <= j
    IN [result |-> RunChecksFrom(r, case, SubSeq(checks, 1, upto), 1, fails),
        recorded |-> Recorded(response),
        errors |-> IF Len(errors) > 0 THEN <<get_grouped_exception(errors)>> ELSE <<>>,
        raised |-> IF Len(errors) > 0 THEN get_grouped_exception(errors).exception ELSE "none"]

run_checks_raise_before_record(case, checks, r, response, fails) ==
    LET errors == RunChecksErrors(checks, fails)
    IN [result |-> RunChecksFrom(r, case, checks, 1, fails),
        recorded |-> IF Len(errors) > 0 THEN NotRecorded ELSE Recorded(response),
        errors |-> IF Len(errors) > 0 THEN <<get_grouped_exception(errors)>> ELSE <<>>,
        raised |-> IF Len(errors) > 0 THEN get_grouped_exception(errors).exception ELSE "none"]

run_checks(case, checks, r, response, fails) ==
    LET errors == RunChecksErrors(checks, fails)
    IN [result |-> RunChecksFrom(r, case, checks, 1, fails),
        recorded |-> Recorded(response),
        errors |-> IF Len(errors) > 0 THEN <<get_grouped_exception(errors)>> ELSE <<>>,
        raised |-> IF Len(errors) > 0 THEN get_grouped_exception(errors).exception ELSE "none"]

\* What case.call(session=session, timeout=timeout) does: returns a response or raises
NoResponse == [status_code |-> 0, text |-> NonJson, elapsed |-> 0]

CallOutcomes ==
    {[exc |-> "none", response |-> r] : r \in Responses}
    \cup {[exc |-> x, response |-> NoResponse] : x \in {"ConnectionError", "KeyboardInterrupt"}}

TestRun(r, st, sent, dispatched, missing, raised, response) ==
    [result |-> r, store |-> st, sent |-> sent, dispatched |-> dispatched,
     missing |-> missing, raised |-> raised, response |-> response]

network_test(case, checks, r, execute_in_order, st, call, fails) ==
    LET changed == check_if_change_required(update_case_header(case, SessionHeaders).case,
                                            execute_in_order, st)
    IN IF changed.raised # "none"
       THEN TestRun(r, st, changed.case, FALSE, changed.missing, changed.raised, NoResponse)
       ELSE IF call.exc # "none"
       THEN TestRun(r, st, changed.case, TRUE, changed.missing, call.exc, NoResponse)
       ELSE LET stored == check_if_storing_required(changed.case, call.response, execute_in_order, st)
            IN IF stored.raised # "none"
               THEN TestRun(r, stored.store, changed.case, TRUE, changed.missing, stored.raised, call.response)
               ELSE LET checked == run_checks(changed.case, checks, r, call.response, fails)
                    IN TestRun(checked.result, stored.store, changed.case, TRUE, changed.missing,
                               checked.raised, call.response)

\* wsgi_test: no dependency resolution, case.call_wsgi, no storing, run_checks
wsgi_test(case, checks, r, st, call, fails) ==
    IF call.exc # "none"
    THEN TestRun(r, st, case, TRUE, FALSE, call.exc, NoResponse)
    ELSE LET checked == run_checks(case, checks, r, call.response, fails)
         IN TestRun(checked.result, st, case, TRUE, FALSE, checked.raised, call.response)

\* the keyword parameters of the two test bodies
TestParameters(app) ==
    IF app THEN {"auth", "auth_type", "headers"}
    ELSE {"session", "request_timeout", "execute_in_order", "store_response"}

\* the keyword arguments that _execute of the single-thread runners gives run_test
RunnerKwargs(app) ==
    IF app THEN {"auth", "auth_type", "headers"} ELSE {"session", "request_timeout"}

\* kwargs['execute_in_order'] = ...; kwargs['store_response'] = ...
run_test_kwargs(kwargs) == kwargs \cup {"execute_in_order", "store_response"}

\* test(checks, result, **kwargs): a keyword argument that the test body does
\* not take is a TypeError, raised before any case is generated
test_call_raises(app) ==
    IF run_test_kwargs(RunnerKwargs(app)) \subseteq TestParameters(app) THEN "none" ELSE "TypeError"

-----------------------------------------------------------------------------
(* Events *)

Event(type, endpoint, status, rs, exception) ==
    [type |-> type, endpoint |-> endpoint, status |-> status, results |-> rs, exception |-> exception]

Initialized == Event("Initialized", 0, "none", <<>>, "none")
BeforeExecution(i) == Event("BeforeExecution", i, "none", <<>>, "none")
AfterExecution(i, r, status) == Event("AfterExecution", i, status, <<r>>, "none")
Interrupted(i) == Event("Interrupted", i, "none", <<>>, "none")
InternalError(exc) == Event("InternalError", 0, "none", <<>>, exc)
Finished(rs) == Event("Finished", 0, "none", rs, "none")

-----------------------------------------------------------------------------
(* run_test (core.py) *)

\* What the Hypothesis test raises once the cases have run, given the exceptions
\* the cases raised: nothing, the one failure found, several distinct failures,
\* a failure that did not reproduce, or no example at all.
HypothesisOutcomes(raised) ==
    IF raised = {} THEN {"return", "Unsatisfiable"}
    ELSE raised \cup {"Flaky"} \cup (IF Cardinality(raised) >= 2 THEN {"MultipleFailures"} ELSE {})

\* run_test without result.mark_errored() in the Flaky clause
run_test_status_flaky_unmarked(r, exc) ==
    CASE exc = "return" -> [status |-> "success", result |-> r]
      [] exc \in {"AssertionError", "MultipleFailures"} -> [status |-> "failure", result |-> r]
      [] exc = "Flaky" ->
            [status |-> "error",
             result |-> add_error(r, "Flaky",
                                  IF Len(r.checks) > 0 THEN <<r.checks[Len(r.checks)].example>> ELSE <<>>)]
      [] OTHER -> [status |-> "error", result |-> add_error(r, exc, <<>>)]

\* The try/except of run_test: `exc` is what test(checks, result, **kwargs) raised,
\* "InvalidSchema" stands for a test that is an InvalidSchema instance.
run_test_status(r, exc) ==
    CASE exc = "return" -> [status |-> "success", result |-> r]
      [] exc = "InvalidSchema" -> [status |-> "error", result |-> add_error(r, exc, <<>>)]
      [] exc \in {"AssertionError", "MultipleFailures"} -> [status |-> "failure", result |-> r]
      [] exc = "Flaky" ->
            [status |-> "error",
             result |-> add_error(mark_errored(r), "Flaky",
                                  IF Len(r.checks) > 0 THEN <<r.checks[Len(r.checks)].example>> ELSE <<>>)]
      [] exc = "Unsatisfiable" -> [status |-> "error", result |-> add_error(r, "Unsatisfiable", <<>>)]
      [] OTHER -> [status |-> "error", result |-> add_error(r, exc, <<>>)]

\* run_test with KeyboardInterrupt handled by the `except Exception` clause
run_test_finish_interrupt_as_error(rs, r, i, exc) ==
    LET s == run_test_status(r, exc)
    IN [results |-> append(rs, s.result), event |-> AfterExecution(i, s.result, s.status)]

\* run_test with results.append(result) reached before Interrupted is yielded
run_test_finish_interrupt_appends(rs, r, i, exc) ==
    IF exc = "KeyboardInterrupt"
    THEN [results |-> append(rs, r), event |-> Interrupted(i)]
    ELSE LET s == run_test_status(r, exc)
         IN [results |-> append(rs, s.result), event |-> AfterExecution(i, s.result, s.status)]

\* run_test with results.append(result) reached only when the test passed
run_test_finish_append_on_success(rs, r, i, exc) ==
    IF exc = "KeyboardInterrupt"
    THEN [results |-> rs, event |-> Interrupted(i)]
    ELSE LET s == run_test_status(r, exc)
         IN [results |-> IF s.status = "success" THEN append(rs, s.result) ELSE rs,
             event |-> AfterExecution(i, s.result, s.status)]

\* The end of run_test: the event it yields and the TestResultSet it leaves
run_test_finish(rs, r, i, exc) ==
    IF exc = "KeyboardInterrupt"
    THEN [results |-> rs, event |-> Interrupted(i)]
    ELSE LET s == run_test_status(r, exc)
         IN [results |-> append(rs, s.result), event |-> AfterExecution(i, s.result, s.status)]

-----------------------------------------------------------------------------
(* BaseRunner.execute (core.py) *)

\* the condition of the `break` without the test of self.exit_first
exit_first_break_unconditional(exit_first, event) ==
    event.type = "AfterExecution" /\ event.status \in {"error", "failure"}

\* the condition of the `break` in the loop over self._execute(results)
exit_first_break(exit_first, event) ==
    exit_first /\ event.type = "AfterExecution" /\ event.status \in {"error", "failure"}

\* SingleThreadRunner._execute: the endpoints are run one after another in
\* schema order, and the iteration stops after an Interrupted event.
SingleThreadRunner_execute(event) == IF event.type = "Interrupted" THEN "interrupted" ELSE "loop"

\* the loop of execute without the `break`
execute_event_without_break(exit_first, event, rs, out) ==
    [stream |-> Append(out, event), pc |-> SingleThreadRunner_execute(event)]

\* One event of _execute passing through the loop of execute: it is yielded, or
\* the loop is left and Finished is yielded.
execute_event(exit_first, event, rs, out) ==
    IF exit_first_break(exit_first, event)
    THEN [stream |-> Append(out, Finished(rs)), pc |-> "done"]
    ELSE [stream |-> Append(out, event), pc |-> SingleThreadRunner_execute(event)]

-----------------------------------------------------------------------------
(* prepare and execute_from_schema (runner/__init__.py) *)

BuiltinLoaders == {"from_uri", "from_aiohttp", "from_dict", "from_file", "from_path", "from_wsgi"}

validate_loader(loader, schema_is_dict) ==
    IF loader \notin BuiltinLoaders THEN "none"
    ELSE IF schema_is_dict
    THEN (IF loader # "from_dict" THEN "ValueError" ELSE "none")
    ELSE IF loader = "from_dict" THEN "ValueError" ELSE "none"

\* execute_from_schema without the `except Exception` clause
execute_from_schema_except_reraise(out, exc) ==
    [stream |-> out, escaped |-> exc]

\* execute_from_schema yielding Finished after the InternalError event
execute_from_schema_except_finished(out, exc) ==
    [stream |-> Append(Append(out, InternalError(exc)), Finished(<<>>)), escaped |-> "none"]

\* `except Exception as exc: yield events.InternalError.from_exc(exc)`
execute_from_schema_except(out, exc) ==
    [stream |-> Append(out, InternalError(exc)), escaped |-> "none"]

-----------------------------------------------------------------------------
(* The run: prepare(...) and the consumption of the generator it returns *)

RECURSIVE SeqsOf(_, _)
\* the sequences of distinct elements of S of length at most n
SeqsOf(S, n) ==
    IF n = 0 THEN {<<>>}
    ELSE LET shorter == SeqsOf(S, n - 1)
         IN shorter \cup {Append(s, e) : s \in {t \in shorter : Len(t) = n - 1},
                                          e \in S} 

Distinct(s) == \A i, j \in DOMAIN s : i # j => s[i] # s[j]

Schemas == {s \in SeqsOf(Endpoints, MaxEndpoints) : Distinct(s)}

\* no function is called
NoCall == [fn |-> "none"]

IdleArgs == [loader |-> "custom", schema_is_dict |-> FALSE, exit_first |-> FALSE,
             execute_in_order |-> "none", validate_schema |-> TRUE, app |-> FALSE,
             schema |-> <<>>]

NoRun == [ran |-> FALSE, sent |-> NoCase, dispatched |-> FALSE,
          missing |-> FALSE, raised |-> "none"]

\* The calls of prepare(...): every loader with either type of schema_uri, and
\* with the default loader every schema with either exit_first and with every
\* execute_in_order, the schemas with a GET endpoint that has a body also
\* without validation, and every schema with a WSGI app.
PrepareArgs ==
    [loader : {"from_uri", "from_dict", "custom"}, schema_is_dict : BOOLEAN, exit_first : {FALSE},
     execute_in_order : {"none"}, validate_schema : {TRUE}, app : {FALSE}, schema : {<<PostNotes>>}]
    \cup [loader : {"from_uri"}, schema_is_dict : {FALSE}, exit_first : BOOLEAN,
          execute_in_order : {"none"}, validate_schema : {TRUE}, app : {FALSE}, schema : Schemas]
    \cup [loader : {"from_uri"}, schema_is_dict : {FALSE}, exit_first : {FALSE},
          execute_in_order : {"empty", "notes"}, validate_schema : {TRUE}, app : {FALSE}, schema : Schemas]
    \cup [loader : {"from_uri"}, schema_is_dict : {FALSE}, exit_first : {FALSE},
          execute_in_order : {"none"}, validate_schema : {FALSE}, app : {FALSE},
          schema : {<<GetItems>>, <<PostNotes, GetItems>>}]
    \cup [loader : {"from_wsgi"}, schema_is_dict : {FALSE}, exit_first : BOOLEAN,
          execute_in_order : {"notes"}, validate_schema : {TRUE}, app : {TRUE}, schema : Schemas]

Init ==
    /\ pc = "prepare"
    /\ args \in PrepareArgs
    /\ escaped = "none"
    /\ stream = <<>>
    /\ inner = <<>>
    /\ results = <<>>
    /\ result = TestResult(PostNotes)
    /\ idx = 0
    /\ seen = {}
    /\ steps = 0
    /\ store = EmptyDict
    /\ lastRun = NoRun
    /\ lastPost = [seen |-> FALSE, text |-> NonJson]
    /\ input = NoCall
    /\ output = NoCall

\* prepare(...): validate_loader, then the generator of execute_from_schema is returned
Prepare ==
    /\ pc = "prepare"
    /\ LET raised == validate_loader(args.loader, args.schema_is_dict)
       IN /\ escaped' = raised
          /\ pc' = IF raised = "none" THEN "generator" ELSE "raised"
    /\ UNCHANGED <<args, stream, inner, results, result, idx, seen, steps, store, lastRun, lastPost, input, output>>

\* The first resumption of the generator: import_app, load_schema, the selection
\* of the runner, and runner.execute() up to its first yield.
Start ==
    /\ pc = "generator"
    /\ \E failure \in {"none", "ImportError", "SchemaLoadError", "RunnerError"} :
          IF failure = "none"
          THEN /\ stream' = Append(stream, Initialized)
               /\ pc' = "loop"
               /\ UNCHANGED escaped
          ELSE LET caught == execute_from_schema_except(stream, failure)
               IN /\ stream' = caught.stream
                  /\ escaped' = caught.escaped
                  /\ pc' = "done"
    /\ UNCHANGED <<args, inner, results, result, idx, seen, steps, store, lastRun, lastPost, input, output>>

\* _execute takes the next endpoint of the schema; run_test starts and yields BeforeExecution.
NextEndpoint ==
    /\ pc = "loop"
    /\ idx < Len(args.schema)
    /\ idx' = idx + 1
    /\ result' = TestResult(args.schema[idx + 1])
    /\ seen' = {}
    /\ inner' = Append(inner, BeforeExecution(idx + 1))
    /\ LET out == execute_event(args.exit_first, BeforeExecution(idx + 1), results, stream)
       IN stream' = out.stream /\ pc' = IF out.pc = "loop" THEN "test" ELSE out.pc
    /\ UNCHANGED <<args, escaped, results, steps, store, lastRun, lastPost, input, output>>

\* Hypothesis calls the test body (network_test) on one generated case.
RunCase ==
    /\ pc = "test"
    /\ make_test_or_exception(result.endpoint, args.validate_schema) = "test"
    /\ test_call_raises(args.app) = "none"
    /\ steps < MaxCases
    /\ \E call \in CallOutcomes, fails \in SUBSET CheckNames :
          LET case == GeneratedCase(result.endpoint)
              run == IF args.app
                     THEN wsgi_test(case, CheckList, result, store, call, fails)
                     ELSE network_test(case, CheckList, result,
                                       ExecuteInOrder(args.execute_in_order), store, call, fails)
          IN /\ store' = run.store
             /\ steps' = steps + 1
             /\ lastRun' = [ran |-> TRUE, sent |-> run.sent,
                            dispatched |-> run.dispatched, missing |-> run.missing,
                            raised |-> run.raised]
             /\ lastPost' = IF /\ result.endpoint = PostNotes
                               /\ call.exc = "none"
                               /\ call.response.status_code <= StoreableMax
                            THEN [seen |-> TRUE, text |-> call.response.text]
                            ELSE lastPost
             /\ IF run.raised = "KeyboardInterrupt"
                THEN LET fin == run_test_finish(results, run.result, idx, run.raised)
                         out == execute_event(args.exit_first, fin.event, fin.results, stream)
                     IN /\ results' = fin.results
                        /\ inner' = Append(inner, fin.event)
                        /\ stream' = out.stream
                        /\ pc' = out.pc
                        /\ UNCHANGED <<result, seen>>
                ELSE /\ result' = run.result
                     /\ seen' = seen \cup ({run.raised} \ {"none"})
                     /\ UNCHANGED <<pc, results, inner, stream>>
    /\ UNCHANGED <<args, escaped, idx, input, output>>

\* The test returns or raises; run_test classifies it, appends the result and
\* yields AfterExecution, which passes through the loop of execute.
EndTest ==
    /\ pc = "test"
    /\ \E exc \in (IF make_test_or_exception(result.endpoint, args.validate_schema) = "InvalidSchema"
                   THEN {"InvalidSchema"}
                   ELSE IF test_call_raises(args.app) # "none"
                   THEN {test_call_raises(args.app)}
                   ELSE HypothesisOutcomes(seen)) :
          LET fin == run_test_finish(results, result, idx, exc)
              out == execute_event(args.exit_first, fin.event, fin.results, stream)
          IN /\ results' = fin.results
             /\ result' = fin.event.results[1]
             /\ inner' = Append(inner, fin.event)
             /\ stream' = out.stream
             /\ pc' = out.pc
    /\ UNCHANGED <<args, escaped, idx, seen, steps, store, lastRun, lastPost, input, output>>

\* _execute is exhausted (or stopped after Interrupted): execute yields Finished.
Finish ==
    /\ \/ pc = "loop" /\ idx = Len(args.schema)
       \/ pc = "interrupted"
    /\ stream' = Append(stream, Finished(results))
    /\ pc' = "done"
    /\ UNCHANGED <<args, escaped, inner, results, result, idx, seen, steps, store, lastRun, lastPost, input, output>>

\* The runner raises outside run_test's try block while the generator is consumed.
RunnerFails ==
    /\ pc = "loop"
    /\ LET caught == execute_from_schema_except(stream, "RunnerError")
       IN /\ stream' = caught.stream
          /\ escaped' = caught.escaped
    /\ pc' = "done"
    /\ UNCHANGED <<args, inner, results, result, idx, seen, steps, store, lastRun, lastPost, input, output>>

Next == Prepare \/ Start \/ NextEndpoint \/ RunCase \/ EndTest \/ Finish \/ RunnerFails

Spec == Init /\ [][Next]_vars

-----------------------------------------------------------------------------
(* The TestResultSet scenario: any sequence of add_success, add_failure,   *)
(* add_error, mark_errored on a TestResult and append to the set.          *)

ApiInit ==
    /\ pc = "api"
    /\ args = IdleArgs
    /\ escaped = "none"
    /\ stream = <<>>
    /\ inner = <<>>
    /\ results = <<>>
    /\ result = TestResult(PostNotes)
    /\ idx = 0
    /\ seen = {}
    /\ steps = 0
    /\ store = EmptyDict
    /\ lastRun = NoRun
    /\ lastPost = [seen |-> FALSE, text |-> NonJson]
    /\ input = NoCall
    /\ output = NoCall

ApiFrame == UNCHANGED <<pc, args, escaped, stream, inner, idx, seen, store, lastRun, lastPost, input, output>>

ApiAddSuccess ==
    /\ pc = "api" /\ steps < MaxOps
    /\ result' = add_success(result, "check", GeneratedCase(result.endpoint))
    /\ steps' = steps + 1
    /\ UNCHANGED results
    /\ ApiFrame

ApiAddFailure ==
    /\ pc = "api" /\ steps < MaxOps
    /\ result' = add_failure(result, "check", GeneratedCase(result.endpoint), "message")
    /\ steps' = steps + 1
    /\ UNCHANGED results
    /\ ApiFrame

ApiAddError ==
    /\ pc = "api" /\ steps < MaxOps
    /\ result' = add_error(result, "Exception", <<>>)
    /\ steps' = steps + 1
    /\ UNCHANGED results
    /\ ApiFrame

ApiMarkErrored ==
    /\ pc = "api" /\ steps < MaxOps
    /\ result' = mark_errored(result)
    /\ steps' = steps + 1
    /\ UNCHANGED results
    /\ ApiFrame

ApiAppend ==
    /\ pc = "api" /\ steps < MaxOps
    /\ results' = append(results, result)
    /\ result' = TestResult(PostNotes)
    /\ steps' = steps + 1
    /\ ApiFrame

ApiNext == ApiAddSuccess \/ ApiAddFailure \/ ApiAddError \/ ApiMarkErrored \/ ApiAppend

ApiSpec == ApiInit /\ [][ApiNext]_vars

-----------------------------------------------------------------------------
(* The worker scenario: the workers of a pool each append the results of   *)
(* their endpoints to one shared TestResultSet.                            *)

\* the endpoints of the run (several may have equal results), each given to a worker
PoolInputs ==
    UNION {[items : {[i \in DOMAIN s |-> TestResult(s[i])]},
            owner : [DOMAIN s -> 1..MaxWorkers],
            phase : {[i \in DOMAIN s |-> "pending"]},
            loaded : {[i \in DOMAIN s |-> 0]}] : s \in SeqsOf(Endpoints, MaxEndpoints)}

PoolInit ==
    /\ pc = "pool"
    /\ args = IdleArgs
    /\ escaped = "none"
    /\ stream = <<>>
    /\ inner = <<>>
    /\ results = <<>>
    /\ result = TestResult(PostNotes)
    /\ idx = 0
    /\ seen = {}
    /\ steps = 0
    /\ store = EmptyDict
    /\ lastRun = NoRun
    /\ lastPost = [seen |-> FALSE, text |-> NonJson]
    /\ input \in PoolInputs
    /\ output = NoCall

PoolFrame ==
    UNCHANGED <<pc, args, escaped, stream, inner, result, idx, seen, steps, store, lastRun,
                lastPost, output>>

\* the item a worker is busy with: the first of its items that is not appended
WorkerItem(w, i) ==
    /\ i \in DOMAIN input.items
    /\ input.owner[i] = w
    /\ input.phase[i] # "done"
    /\ \A j \in 1..(i - 1) : input.owner[j] = w => input.phase[j] = "done"

\* results.append(result) in a worker, first half: the attribute self.results is loaded
WorkerLoad(w) ==
    /\ pc = "pool"
    /\ \E i \in DOMAIN input.items :
          /\ WorkerItem(w, i)
          /\ input.phase[i] = "pending"
          /\ input' = [input EXCEPT !.phase[i] = "loaded", !.loaded[i] = Len(results)]
    /\ UNCHANGED results
    /\ PoolFrame

\* second half: list.append(item) runs
WorkerAppend(w) ==
    /\ pc = "pool"
    /\ \E i \in DOMAIN input.items :
          /\ WorkerItem(w, i)
          /\ input.phase[i] = "loaded"
          /\ results' = list_append(results, input.loaded[i], input.items[i])
          /\ input' = [input EXCEPT !.phase[i] = "done"]
    /\ PoolFrame

PoolNext == \E w \in 1..MaxWorkers : WorkerLoad(w) \/ WorkerAppend(w)

PoolSpec == PoolInit /\ [][PoolNext]_vars

-----------------------------------------------------------------------------
(* Generated values and the filters of the case strategy (_hypothesis.py,  *)
(* models.py)                                                              *)

\* A Python value: its type, the code points of a str or bytes, and the
\* elements of a list or the (key, value) items of a dict.
PyNone == [type |-> "none", v |-> <<>>, items |-> <<>>]
PyInt == [type |-> "int", v |-> <<1>>, items |-> <<>>]
PyStr(v) == [type |-> "str", v |-> v, items |-> <<>>]
PyBytes(v) == [type |-> "bytes", v |-> v, items |-> <<>>]
PyList(items) == [type |-> "list", v |-> <<>>, items |-> items]
PyDict(items) == [type |-> "dict", v |-> <<>>, items |-> items]

\* the code points of the strings in use: ".", "abc", "x", "A", "b", "id", "name",
\* a string with a non-ASCII letter, one with a line feed and the lone surrogate "\ud800"
Text == [dot |-> <<46>>, abc |-> <<97, 98, 99>>, x |-> <<120>>, a |-> <<65>>, b |-> <<98>>,
         id |-> <<105, 100>>, name |-> <<110, 97, 109, 101>>,
         nonascii |-> <<233>>, linefeed |-> <<98, 10>>, lone |-> <<55296>>]
AsciiLimit == 128
InvalidHeaderChars == {10, 13}

filter_path_parameters_dot_only(parameters) ==
    ~\E i \in DOMAIN parameters.items : parameters.items[i][2] = PyStr(Text.dot)

filter_path_parameters(parameters) ==
    IF \E i \in DOMAIN parameters.items : parameters.items[i][2].type \in {"list", "dict"}
    THEN FALSE
    ELSE ~\E i \in DOMAIN parameters.items : parameters.items[i][2] = PyStr(Text.dot)

\* utils.is_ascii_encodable(value): value.encode("ascii") does not fail
is_ascii_encodable(value) == \A i \in DOMAIN value.v : value.v[i] < AsciiLimit

\* utils.has_invalid_characters(name, value)
has_invalid_characters(name, value) ==
    \/ \E i \in DOMAIN name.v : name.v[i] \in InvalidHeaderChars
    \/ \E i \in DOMAIN value.v : value.v[i] \in InvalidHeaderChars

is_valid_header(headers) ==
    IF headers.type # "dict" THEN FALSE
    ELSE \A i \in DOMAIN headers.items :
            LET name == headers.items[i][1]
                value == headers.items[i][2]
            IN /\ name.type = "str" /\ value.type = "str"
               /\ Len(name.v) > 0 /\ Len(value.v) > 0
               /\ is_ascii_encodable(name) /\ is_ascii_encodable(value)
               /\ ~has_invalid_characters(name, value)

is_valid_cookie(cookies) ==
    IF cookies.type # "dict" THEN FALSE
    ELSE \A i \in DOMAIN cookies.items :
            LET name == cookies.items[i][1]
                value == cookies.items[i][2]
            IN /\ name.type = "str" /\ value.type = "str"
               /\ is_ascii_encodable(name) /\ is_ascii_encodable(value)

\* the character class [\ud800-\udfff]
SurrogateMin == 55296
SurrogateMax == 57343

\* isinstance(item, str) and bool(re.search(r"[\ud800-\udfff]", item))
is_surrogate(item) ==
    item.type = "str" /\ \E i \in DOMAIN item.v : item.v[i] \in SurrogateMin..SurrogateMax

is_valid_query(query) ==
    IF query.type # "dict" THEN FALSE
    ELSE \A i \in DOMAIN query.items :
            ~(is_surrogate(query.items[i][1]) \/ is_surrogate(query.items[i][2]))

strategy_filter_cookie_branch(parameter, value) ==
    CASE parameter = "path_parameters" -> filter_path_parameters(value)
      [] parameter = "headers" -> is_valid_header(value)
      [] parameter = "query" -> is_valid_query(value)
      [] parameter = "cookies" -> is_valid_cookie(value)

\* The filter get_case_strategy puts on the strategy of a parameter: the first
\* branch of its if/elif chain that matches (path_parameters, headers, cookies, query).
strategy_filter(parameter, value) ==
    CASE parameter = "path_parameters" -> filter_path_parameters(value)
      [] parameter \in {"headers", "cookies"} -> is_valid_header(value)
      [] parameter = "query" -> is_valid_query(value)

is_multipart_top_level(item) ==
    \/ item.type = "bytes"
    \/ item.type = "dict" /\ \E i \in DOMAIN item.items : item.items[i][2].type = "bytes"
    \/ item.type = "list" /\ \E i \in DOMAIN item.items : item.items[i].type = "bytes"

RECURSIVE is_multipart(_)
is_multipart(item) ==
    IF item.type = "bytes" THEN TRUE
    ELSE IF item.type = "dict" THEN \E i \in DOMAIN item.items : is_multipart(item.items[i][2])
    ELSE IF item.type = "list" THEN \E i \in DOMAIN item.items : is_multipart(item.items[i])
    ELSE FALSE

-----------------------------------------------------------------------------
(* The function scenario: one call of a function of the runner or of the   *)
(* case strategy on arguments drawn from bounded sets.                     *)

CheckFunctions == {"not_a_server_error", "status_code_conformance", "content_type_conformance"}

\* lists of distinct checks; a fresh TestResult or one that holds the check of
\* an earlier case
RunChecksInputs ==
    [fn : {"run_checks"}, case : {GeneratedCase(PostNotes)},
     checks : {c \in SeqsOf(CheckFunctions, MaxChecks) : Distinct(c)},
     result : {TestResult(PostNotes),
               add_success(TestResult(PostNotes), "not_a_server_error", GeneratedCase(PostNotes))},
     response : [status_code : StatusCodes, text : {NonJson, JsonObject([id |-> "id1"])},
                 elapsed : Elapsed],
     fails : SUBSET CheckFunctions]

\* case.headers: None, empty, or generated values under some header names;
\* session.headers: the defaults of the session, with or without the configured ones
UpdateCaseHeaderInputs ==
    [fn : {"update_case_header"},
     case : {Case(PostNotes, NoneDict, h, NoneDict, Dict([title |-> "gen"])) :
                h \in {NoneDict} \cup {Dict([n \in names |-> "gen"]) :
                          names \in SUBSET {"User-Agent", "X-Request-Id", "Authorization"}}},
     session_headers : {[h \in names |-> IF h = "user-agent" THEN "schemathesis" ELSE "token"] :
                           names \in SUBSET {"user-agent", "authorization"}}]

PathValues == {PyStr(Text.dot), PyStr(Text.abc), PyInt, PyList(<<PyStr(Text.x)>>),
               PyDict(<< <<PyStr(Text.x), PyStr(Text.x)>> >>)}

\* mappings with the parameters "id" and "name" of a path template
PathParameters ==
    {PyDict(<<>>)} \cup {PyDict(<< <<PyStr(Text.id), a>> >>) : a \in PathValues}
    \cup {PyDict(<< <<PyStr(Text.id), a>>, <<PyStr(Text.name), b>> >>) : a, b \in PathValues}

HeaderParts == {PyStr(Text.a), PyStr(Text.b), PyStr(<<>>), PyStr(Text.nonascii), PyStr(Text.linefeed), PyInt}

\* what the schema strategy of headers or cookies may generate: any value
HeaderValues ==
    {PyNone, PyStr(Text.a), PyList(<<PyStr(Text.a)>>), PyDict(<<>>)}
    \cup {PyDict(<< <<n, v>> >>) : n, v \in HeaderParts}
    \cup {PyDict(<< <<PyStr(Text.a), PyStr(Text.b)>>, <<n, v>> >>) : n \in HeaderParts \ {PyStr(Text.a)}, v \in HeaderParts}

\* names and values of generated query parameters
QueryParts ==
    {PyStr(Text.a), PyStr(Text.lone), PyInt, PyList(<<PyStr(Text.a)>>),
     PyList(<<PyStr(Text.lone)>>), PyDict(<< <<PyStr(Text.a), PyStr(Text.lone)>> >>)}

\* what the schema strategy of query may generate: any value
QueryValues ==
    {PyNone, PyStr(Text.a), PyList(<<PyStr(Text.a)>>), PyDict(<<>>)}
    \cup {PyDict(<< <<n, v>> >>) : n \in {PyStr(Text.a), PyStr(Text.lone), PyInt}, v \in QueryParts}
    \cup {PyDict(<< <<PyStr(Text.a), PyStr(Text.b)>>, <<PyStr(Text.b), v>> >>) : v \in QueryParts}

FilterInputs ==
    [fn : {"strategy_filter"}, parameter : {"path_parameters"}, value : PathParameters]
    \cup [fn : {"strategy_filter"}, parameter : {"query"}, value : QueryValues]
    \cup [fn : {"strategy_filter"}, parameter : {"headers", "cookies"}, value : HeaderValues]

RECURSIVE BodyValues(_)
\* bodies nested up to depth d
BodyValues(d) ==
    IF d = 0 THEN {PyNone, PyStr(Text.x), PyBytes(Text.x)}
    ELSE LET inner_values == BodyValues(d - 1)
         IN inner_values
            \cup {PyList(<<a>>) : a \in inner_values}
            \cup {PyList(<<PyStr(Text.x), a>>) : a \in inner_values}
            \cup {PyDict(<< <<PyStr(Text.a), a>> >>) : a \in inner_values}

IsMultipartInputs == [fn : {"is_multipart"}, item : BodyValues(MaxDepth)]

\* counter[key] = 1 in place of counter[key] += 1
counter_set(counter, key) ==
    [k \in DOMAIN counter \cup {key} |-> IF k = key THEN 1 ELSE counter[k]]

\* Counter: counter[key] += 1, a key that is missing counts from 0
counter_add(counter, key) ==
    [k \in DOMAIN counter \cup {key} |->
        (IF k \in DOMAIN counter THEN counter[k] ELSE 0) + (IF k = key THEN 1 ELSE 0)]

\* the inner loop of total over item.checks, from check i on
RECURSIVE total_checks(_, _, _)
total_checks(out, checks, i) ==
    IF i > Len(checks) THEN out
    ELSE LET check == checks[i]
             counter == IF check.name \in DOMAIN out THEN out[check.name] ELSE EmptyDict
         IN total_checks(DictSet(out, check.name,
                                 counter_add(counter_add(counter, check.value), "total")),
                         checks, i + 1)

\* TestResultSet.total: the loop over self.results, from result j on; the
\* returned dict(value) of a Counter holds the keys that were counted
RECURSIVE total(_, _, _)
total(out, rs, j) ==
    IF j > Len(rs) THEN out
    ELSE total(total_checks(out, rs[j].checks, 1), rs, j + 1)

\* the Checks a result may hold: two check names, every Status
TotalChecks ==
    {Check(name, value, NoCase, <<>>) :
        name \in {"not_a_server_error", "status_code_conformance"},
        value \in {"success", "failure", "error"}}

\* result sets of up to two results with up to MaxChecks Checks each
TotalInputs ==
    [fn : {"total"},
     results : SeqsOf({[TestResult(PostNotes) EXCEPT !.checks = c] : c \in SeqsOf(TotalChecks, MaxChecks)},
                      2)]

\* Python truthiness of a generated value
PyTruthy(x) ==
    CASE x.type = "none" -> FALSE
      [] x.type \in {"list", "dict"} -> x.items # <<>>
      [] x.type \in {"str", "bytes"} -> x.v # <<>>
      [] OTHER -> TRUE

\* the payload entry of both conversions: form data under form_key, else a
\* multipart body under "data", else the body under "json"
payload(form_key, form_data, body) ==
    IF PyTruthy(form_data) THEN [k \in {form_key} |-> form_data]
    ELSE IF is_multipart(body) THEN [k \in {"data"} |-> body]
    ELSE [k \in {"json"} |-> body]

\* Case.as_requests_kwargs: the keyword arguments of session.request
as_requests_kwargs(case) ==
    [method |-> <<case.method>>, url |-> <<"base_url", case.path>>, cookies |-> case.cookies,
     headers |-> case.headers, params |-> case.query]
    @@ payload("files", case.form_data, case.body)

\* Case.as_werkzeug_kwargs updating the headers of the case in place
as_werkzeug_kwargs_in_place(case, headers) ==
    LET own == IF case.headers.none THEN EmptyDict ELSE case.headers.d
        updated == IF Truthy(headers)
                   THEN [h \in DOMAIN own \cup DOMAIN headers.d |->
                            IF h \in DOMAIN headers.d THEN headers.d[h] ELSE own[h]]
                   ELSE own
        final_headers == IF PyTruthy(case.form_data) /\ "Content-Type" \notin DOMAIN updated
                         THEN DictSet(updated, "Content-Type", "multipart/form-data")
                         ELSE updated
    IN [kwargs |-> [method |-> <<case.method>>, path |-> <<case.path>>,
                    headers |-> Dict(final_headers), query_string |-> case.query]
                   @@ payload("data", case.form_data, case.body),
        case_headers |-> IF case.headers.none THEN case.headers ELSE Dict(final_headers)]

\* Case.as_werkzeug_kwargs: the keyword arguments of client.open, and the
\* headers of the case once it has returned.  final_headers is a copy of
\* case.headers ({} for None), updated with the given headers, and given a
\* default Content-Type when form data is sent.
as_werkzeug_kwargs(case, headers) ==
    LET own == IF case.headers.none THEN EmptyDict ELSE case.headers.d
        updated == IF Truthy(headers)
                   THEN [h \in DOMAIN own \cup DOMAIN headers.d |->
                            IF h \in DOMAIN headers.d THEN headers.d[h] ELSE own[h]]
                   ELSE own
        final_headers == IF PyTruthy(case.form_data) /\ "Content-Type" \notin DOMAIN updated
                         THEN DictSet(updated, "Content-Type", "multipart/form-data")
                         ELSE updated
    IN [kwargs |-> [method |-> <<case.method>>, path |-> <<case.path>>,
                    headers |-> Dict(final_headers), query_string |-> case.query]
                   @@ payload("data", case.form_data, case.body),
        case_headers |-> case.headers]

\* cases with and without headers, a body of every kind, no form data, empty
\* form data and form data; transport headers that are absent, override a
\* header of the case, or add one
KwargsInputs ==
    [fn : {"as_kwargs"},
     case : [method : {"POST"}, path : {NotesPath}, cookies : {NoneDict}, query : {NoneDict},
             headers : {NoneDict, Dict([h \in {"X-Request-Id"} |-> "gen"]),
                        Dict([h \in {"X-Request-Id", "Content-Type"} |-> "gen"])},
             body : BodyValues(1),
             form_data : {PyNone, PyDict(<<>>), PyDict(<< <<PyStr(Text.name), PyStr(Text.x)>> >>)}],
     headers : {NoneDict, Dict([h \in {"X-Request-Id"} |-> "token"]),
                Dict([h \in {"Authorization"} |-> "token"])}]

\* execute_from_schema handing execute_in_order to every runner
select_runner_handing_map(workers_num, schema_app, execute_in_order) ==
    [pool |-> workers_num > 1, wsgi |-> schema_app, execute_in_order |-> execute_in_order,
     workers_num |-> IF workers_num > 1 /\ schema_app THEN <<workers_num>> ELSE <<>>]

\* The runner execute_from_schema constructs: its class (pool, wsgi) and the
\* attributes execute_in_order and workers_num it is given; an attribute that
\* is not given keeps the default of BaseRunner (None, shown as "none" and <<>>).
select_runner(workers_num, schema_app, execute_in_order) ==
    IF workers_num > 1
    THEN IF schema_app
         THEN [pool |-> TRUE, wsgi |-> TRUE, execute_in_order |-> "none", workers_num |-> <<workers_num>>]
         ELSE [pool |-> TRUE, wsgi |-> FALSE, execute_in_order |-> "none", workers_num |-> <<>>]
    ELSE IF schema_app
         THEN [pool |-> FALSE, wsgi |-> TRUE, execute_in_order |-> execute_in_order, workers_num |-> <<>>]
         ELSE [pool |-> FALSE, wsgi |-> FALSE, execute_in_order |-> execute_in_order, workers_num |-> <<>>]

\* execute_from_schema with worker counts around 1, schemas with and without
\* an app and every dependency map, followed by the resolution of one case
\* under the runner's map against a store with or without the producer's value
RunnerInputs ==
    [fn : {"select_runner"},
     workers_num : 0..(MaxWorkers + 1),
     schema_app : BOOLEAN,
     execute_in_order : {"none", "empty", "notes"},
     case : {GeneratedCase(PostNotes), GeneratedCase(GetNote)},
     store : {EmptyDict, store_result(EmptyDict, Key("post", NotesPath), "id", "stored")}]

\* cookie_handler around client.open: the cookie jar of the client at the
\* call and when the with statement is left.  `opened` is what client.open did.
\* An exception of the call is thrown into the generator at its yield, and the
\* generator has no try/finally around it.
cookie_handler(jar, cookies, opened) ==
    IF ~Truthy(cookies)
    THEN [at_call |-> jar, jar |-> jar, raised |-> opened.exc]
    ELSE LET set == [k \in DOMAIN jar \cup DOMAIN cookies.d |->
                        IF k \in DOMAIN cookies.d THEN cookies.d[k] ELSE jar[k]]
         IN [at_call |-> set,
             jar |-> IF opened.exc # "none" THEN set
                     ELSE [k \in DOMAIN set \ DOMAIN cookies.d |-> set[k]],
             raised |-> opened.exc]

\* Case.call_wsgi: RuntimeError without an application, else a new
\* werkzeug.Client (empty cookie jar) and client.open inside cookie_handler
call_wsgi(app, cookies, opened) ==
    IF ~app THEN [at_call |-> EmptyDict, jar |-> EmptyDict, raised |-> "RuntimeError"]
    ELSE cookie_handler(EmptyDict, cookies, opened)

\* call_wsgi with and without an application, for cases without cookies, with
\* an empty mapping and with one or two cookies, with a call that returns or raises
CallWsgiInputs ==
    [fn : {"call_wsgi"},
     app : BOOLEAN,
     cookies : {NoneDict} \cup {Dict([k \in names |-> "gen"]) : names \in SUBSET {"sid", "lang"}},
     opened : {[exc |-> x] : x \in {"none", "ConnectionError", "KeyboardInterrupt"}}]

\* _apply_hooks: a strategy is the sequence of its location name and of the
\* hooks applied to it so far, innermost first; getter is the set of the keys
\* for which the getter returns a hook, named by `hook`
apply_hooks(strategies, getter, hook) ==
    [key \in DOMAIN strategies |->
        IF key \in getter THEN Append(strategies[key], hook) ELSE strategies[key]]

\* _get_case_strategy with the two passes in the other order
get_case_strategy_schema_hooks_first(endpoint, validate_schema, strategies, global_hooks, schema_hooks) ==
    IF validate_schema /\ endpoint.method = "GET" /\ endpoint.body
    THEN [raised |-> "InvalidSchema", strategies |-> strategies]
    ELSE LET kept == IF validate_schema /\ endpoint.method = "GET"
                     THEN [key \in DOMAIN strategies \ {"body"} |-> strategies[key]]
                     ELSE strategies
         IN [raised |-> "none",
             strategies |-> apply_hooks(apply_hooks(kept, schema_hooks, "schema"),
                                        global_hooks, "global")]

\* _get_case_strategy: strategies.pop("body") for a validated GET, then
\* _apply_hooks with get_hook, then with endpoint.schema.get_hook
get_case_strategy(endpoint, validate_schema, strategies, global_hooks, schema_hooks) ==
    IF validate_schema /\ endpoint.method = "GET" /\ endpoint.body
    THEN [raised |-> "InvalidSchema", strategies |-> strategies]
    ELSE LET kept == IF validate_schema /\ endpoint.method = "GET"
                     THEN [key \in DOMAIN strategies \ {"body"} |-> strategies[key]]
                     ELSE strategies
         IN [raised |-> "none",
             strategies |-> apply_hooks(apply_hooks(kept, global_hooks, "global"),
                                        schema_hooks, "schema")]

\* the parameter locations of an endpoint that hooks are registered for here
HookLocations == {"query", "headers", "body"}

\* _get_case_strategy for endpoints with and without a body, with the
\* strategies of the locations the endpoint defines (body among them exactly
\* when the endpoint has one), and every registration of hooks
HookInputs ==
    {i \in [fn : {"_get_case_strategy"},
            endpoint : [method : {"GET", "POST"}, path : {ItemsPath}, body : BOOLEAN],
            validate_schema : BOOLEAN,
            locations : SUBSET HookLocations,
            global_hooks : SUBSET HookLocations,
            schema_hooks : SUBSET HookLocations] :
        ("body" \in i.locations) <=> i.endpoint.body}

\* the rules that a map may declare for GET /notes/{note_id}, one per location
DeclaredRules ==
    {Depends("path_parameters", "note_id", "post", NotesPath, "id"),
     Depends("query", "q", "post", NotesPath, "name"),
     Depends("body", "title", "post", NotesPath, "id")}

\* check_if_change_required on a case of GET /notes/{note_id} under a map that
\* declares one or two required fields, with a store holding some of the producers
ChangeInputs ==
    [fn : {"check_if_change_required"},
     case : {Case(GetNote, Dict([note_id |-> "gen"]), NoneDict, q, b) :
                q \in {NoneDict, Dict([q |-> "gen"])},
                b \in {NoneDict, Dict([title |-> "gen"])}},
     required : {<<a>> : a \in DeclaredRules}
                \cup {r \in DeclaredRules \X DeclaredRules : r[1] # r[2]},
     store : {[e \in {<<Key("post", NotesPath), f>> : f \in fs} |-> "stored"] :
                 fs \in SUBSET {"id", "name"}}]

FnInit ==
    /\ pc = "call"
    /\ args = IdleArgs
    /\ escaped = "none"
    /\ stream = <<>>
    /\ inner = <<>>
    /\ results = <<>>
    /\ result = TestResult(PostNotes)
    /\ idx = 0
    /\ seen = {}
    /\ steps = 0
    /\ store = EmptyDict
    /\ lastRun = NoRun
    /\ lastPost = [seen |-> FALSE, text |-> NonJson]
    /\ \/ input \in RunChecksInputs
       \/ input \in UpdateCaseHeaderInputs
       \/ input \in FilterInputs
       \/ input \in IsMultipartInputs
       \/ input \in ChangeInputs
       \/ input \in HookInputs
       \/ input \in CallWsgiInputs
       \/ input \in RunnerInputs
       \/ input \in KwargsInputs
       \/ input \in TotalInputs
    /\ output = NoCall

FnFrame == UNCHANGED <<args, escaped, stream, idx, seen, steps, store, lastRun, lastPost, input>>

\* run_checks(case, checks, result, response)
CallRunChecks ==
    /\ pc = "call" /\ input.fn = "run_checks"
    /\ output' = run_checks(input.case, input.checks, input.result, input.response, input.fails)
    /\ pc' = "returned"
    /\ UNCHANGED <<inner, results, result>>
    /\ FnFrame

\* update_case_header(case, session)
CallUpdateCaseHeader ==
    /\ pc = "call" /\ input.fn = "update_case_header"
    /\ output' = update_case_header(input.case, input.session_headers)
    /\ pc' = "returned"
    /\ UNCHANGED <<inner, results, result>>
    /\ FnFrame

\* strategy.filter(...) of get_case_strategy calls the filter on a generated value
CallStrategyFilter ==
    /\ pc = "call" /\ input.fn = "strategy_filter"
    /\ output' = [accepted |-> strategy_filter(input.parameter, input.value)]
    /\ pc' = "returned"
    /\ UNCHANGED <<inner, results, result>>
    /\ FnFrame

\* is_multipart(item)
CallIsMultipart ==
    /\ pc = "call" /\ input.fn = "is_multipart"
    /\ output' = [multipart |-> is_multipart(input.item)]
    /\ pc' = "returned"
    /\ UNCHANGED <<inner, results, result>>
    /\ FnFrame

\* check_if_change_required(case, execute_in_order, store_response)
CallCheckIfChangeRequired ==
    /\ pc = "call" /\ input.fn = "check_if_change_required"
    /\ output' = check_if_change_required(
                     input.case,
                     Dict([k \in {Key("get", NotePath)} |-> Rule(input.required, <<>>)]),
                     input.store)
    /\ pc' = "returned"
    /\ UNCHANGED <<inner, results, result>>
    /\ FnFrame

\* The runner selection of execute_from_schema, and check_if_change_required
\* called with the execute_in_order attribute of the selected runner.
CallSelectRunner ==
    /\ pc = "call" /\ input.fn = "select_runner"
    /\ LET runner == select_runner(input.workers_num, input.schema_app, input.execute_in_order)
       IN output' = [runner |-> runner,
                     resolution |-> check_if_change_required(
                                       input.case, ExecuteInOrder(runner.execute_in_order), input.store)]
    /\ pc' = "returned"
    /\ UNCHANGED <<inner, results, result>>
    /\ FnFrame

\* case.as_requests_kwargs(base_url) and case.as_werkzeug_kwargs(headers)
CallAsKwargs ==
    /\ pc = "call" /\ input.fn = "as_kwargs"
    /\ output' = [requests |-> as_requests_kwargs(input.case),
                  werkzeug |-> as_werkzeug_kwargs(input.case, input.headers)]
    /\ pc' = "returned"
    /\ UNCHANGED <<inner, results, result>>
    /\ FnFrame

\* results.total
CallTotal ==
    /\ pc = "call" /\ input.fn = "total"
    /\ output' = [total |-> total(EmptyDict, input.results, 1), results |-> input.results]
    /\ pc' = "returned"
    /\ UNCHANGED <<inner, results, result>>
    /\ FnFrame

\* case.call_wsgi(...)
CallCallWsgi ==
    /\ pc = "call" /\ input.fn = "call_wsgi"
    /\ output' = call_wsgi(input.app, input.cookies, input.opened)
    /\ pc' = "returned"
    /\ UNCHANGED <<inner, results, result>>
    /\ FnFrame

\* _get_case_strategy(endpoint, static_kwargs, strategies) as get_case_strategy calls it
CallGetCaseStrategy ==
    /\ pc = "call" /\ input.fn = "_get_case_strategy"
    /\ output' = get_case_strategy(input.endpoint, input.validate_schema,
                                   [key \in input.locations |-> <<key>>],
                                   input.global_hooks, input.schema_hooks)
    /\ pc' = "returned"
    /\ UNCHANGED <<inner, results, result>>
    /\ FnFrame

\* The exception of run_checks leaves the test and reaches the except clauses of run_test.
RaiseToRunTest ==
    /\ pc = "returned" /\ input.fn = "run_checks"
    /\ output.raised # "none"
    /\ LET fin == run_test_finish(results, output.result, 1, output.raised)
       IN /\ results' = fin.results
          /\ result' = fin.event.results[1]
          /\ inner' = Append(inner, fin.event)
    /\ pc' = "classified"
    /\ UNCHANGED output
    /\ FnFrame

FnNext ==
    \/ CallRunChecks \/ RaiseToRunTest \/ CallUpdateCaseHeader
    \/ CallStrategyFilter \/ CallIsMultipart
    \/ CallCheckIfChangeRequired \/ CallGetCaseStrategy
    \/ CallCallWsgi \/ CallSelectRunner \/ CallAsKwargs \/ CallTotal

FnSpec == FnInit /\ [][FnNext]_vars

-----------------------------------------------------------------------------
(* Properties *)

AllResults == {results[i] : i \in DOMAIN results} \cup {result}

Indices(type) == {i \in DOMAIN stream : stream[i].type = type}

\* the endpoints whose run_test yielded AfterExecution with status failure or error
FailedRuns == {inner[k].endpoint : k \in {j \in DOMAIN inner :
                   inner[j].type = "AfterExecution" /\ inner[j].status \in {"failure", "error"}}}

\* C1: passed_count + failed_count + errored_count equals the number of results,
\* and no result is counted by more than one of the three counts.
C1_CountsPartition ==
    /\ passed_count(results) + failed_count(results) + errored_count(results) = Len(results)
    /\ \A i \in DOMAIN results :
          /\ ~(is_passed(results[i]) /\ is_failed(results[i]))
          /\ ~(is_passed(results[i]) /\ is_errored_result(results[i]))
          /\ ~(is_failed(results[i]) /\ is_errored_result(results[i]))

\* C2: with exit_first, once an endpoint's run has ended with status failure or
\* error, the stream holds the AfterExecution event of that endpoint, then
\* Finished, and no BeforeExecution event of a later endpoint.
C2_ExitFirstStream ==
    args.exit_first =>
        \A a \in FailedRuns :
            /\ \E i, j \in DOMAIN stream :
                  /\ i < j
                  /\ stream[i].type = "AfterExecution" /\ stream[i].endpoint = a
                  /\ stream[j].type = "Finished"
            /\ \A i \in Indices("BeforeExecution") : stream[i].endpoint <= a

C4_MissingReadSwallowed ==
    /\ (lastRun.ran /\ lastRun.missing) =>
          /\ lastRun.raised # "MissingDependency"
          /\ lastRun.dispatched
          /\ lastRun.sent.path_parameters = GeneratedCase(lastRun.sent.endpoint).path_parameters
          /\ lastRun.sent.query = GeneratedCase(lastRun.sent.endpoint).query
          /\ lastRun.sent.body = GeneratedCase(lastRun.sent.endpoint).body
    /\ \A r \in AllResults : \A i \in DOMAIN r.errors : r.errors[i].exception # "MissingDependency"

\* C5: no event of any kind follows an Interrupted event.
C5_InterruptedIsLast ==
    \A i \in Indices("Interrupted") : i = Len(stream)

\* C5 (amended): a KeyboardInterrupt during a case puts Interrupted on the
\* stream; no BeforeExecution, AfterExecution or Interrupted event follows it,
\* and the only event after it is Finished, which ends the stream.
C5_InterruptedThenFinished ==
    /\ (lastRun.ran /\ lastRun.raised = "KeyboardInterrupt") => Indices("Interrupted") # {}
    /\ \A i \in Indices("Interrupted") :
          \/ i = Len(stream) /\ pc = "interrupted"
          \/ i + 1 = Len(stream) /\ stream[i + 1].type = "Finished" /\ pc = "done"

C5_Witness ==
    /\ Len(stream) >= 4
    /\ stream[Len(stream) - 1].type = "Interrupted"
    /\ stream[Len(stream)].type = "Finished"
    /\ Len(results) = 1

\* C6: no exception escapes prepare(...) or the generator it returns.
C6_NothingEscapes ==
    escaped = "none"

\* C6 (amended): no exception escapes the generator returned by prepare(...):
\* a failing schema load or app import and a failure raised while the runner
\* executes arrive as an InternalError event.  Only a loader/schema type
\* mismatch escapes: prepare(...) itself raises ValueError, before a generator
\* exists and before any event.
C6_OnlyLoaderMismatchEscapes ==
    /\ escaped # "none" =>
          /\ escaped = "ValueError"
          /\ pc = "raised"
          /\ stream = <<>>
          /\ args.loader \in BuiltinLoaders
          /\ args.schema_is_dict # (args.loader = "from_dict")
    /\ (pc = "done" /\ Indices("Finished") = {}) => Indices("InternalError") # {}

C6_Witness ==
    /\ pc = "done"
    /\ escaped = "none"
    /\ Len(stream) >= 3
    /\ stream[Len(stream)].type = "InternalError"
    /\ stream[Len(stream)].exception = "RunnerError"

\* C7: a failure of the schema load or of the app import gives a stream of
\* exactly one InternalError event carrying that exception, and in every run no
\* event follows an InternalError event.
C7_InternalErrorEndsStream ==
    \A i \in Indices("InternalError") :
        /\ i = Len(stream)
        /\ pc = "done"
        /\ stream[i].exception \in {"ImportError", "SchemaLoadError"} => Len(stream) = 1

C7_Witness ==
    /\ pc = "done"
    /\ stream = <<InternalError("SchemaLoadError")>>

\* C8: a result holding a failure Check is counted by failed_count and not by
\* errored_count when is_errored is false, and by errored_count and not by
\* failed_count when is_errored is true, whatever else it holds.
C8_ErroredFlagDominates ==
    \A i \in DOMAIN results :
        has_failures(results[i]) =>
            IF results[i].is_errored
            THEN is_errored_result(results[i]) /\ ~is_failed(results[i])
            ELSE is_failed(results[i]) /\ ~is_errored_result(results[i])

\* C9: has_errors is true iff at least one error was recorded or is_errored is set.
C9_HasErrors ==
    \A r \in AllResults : has_errors(r) <=> (Len(r.errors) > 0 \/ r.is_errored)

\* C10: an endpoint whose run_test yielded AfterExecution has exactly one
\* TestResult in the TestResultSet, there from the moment the event is yielded,
\* and no endpoint ever has two.
ResultsOf(e) == {j \in DOMAIN results : results[j].endpoint = e}

C10_OneResultPerEndpoint ==
    /\ \A k \in DOMAIN inner :
          inner[k].type = "AfterExecution" =>
              /\ Cardinality(ResultsOf(args.schema[inner[k].endpoint])) = 1
              /\ inner[k].results[1] \in {results[j] : j \in DOMAIN results}
    /\ \A e \in Endpoints : Cardinality(ResultsOf(e)) <= 1

C10_Witness ==
    /\ Len(results) = 2
    /\ \E k \in DOMAIN inner :
          /\ inner[k].type = "AfterExecution"
          /\ inner[k].status = "error"
          /\ args.schema[inner[k].endpoint] = GetItems
    /\ \E k \in DOMAIN inner : inner[k].type = "AfterExecution" /\ inner[k].status = "failure"

\* C11: in every configuration (map given, empty or absent) the DependencyStore
\* is written only after a response with status code <= 204: it holds an entry
\* for POST /notes only if such a response to POST /notes has been received.
C11_StoredOnlyWhenStoreable ==
    is_stored(store, Key("post", NotesPath), "id") => lastPost.seen

\* C12: run_checks runs every check of the list whatever the earlier checks
\* did and appends exactly one Check per check function, in list order:
\* failure with the message for a check that failed, success for one that passed.
C12_OneCheckPerFunction ==
    (pc # "call" /\ input.fn = "run_checks") =>
        LET before == input.result.checks
            after == output.result.checks
        IN /\ Len(after) = Len(before) + Len(input.checks)
           /\ SubSeq(after, 1, Len(before)) = before
           /\ \A i \in DOMAIN input.checks :
                 after[Len(before) + i] =
                     IF input.checks[i] \in input.fails
                     THEN [name |-> input.checks[i], value |-> "failure",
                           example |-> input.case,
                           message |-> <<FailureMessage(input.checks[i])>>]
                     ELSE [name |-> input.checks[i], value |-> "success",
                           example |-> input.case, message |-> <<>>]

\* a check that passes is recorded after an earlier check of the list failed
C12_Witness ==
    /\ pc = "returned" /\ input.fn = "run_checks"
    /\ Len(input.checks) >= 2
    /\ input.checks[1] \in input.fails
    /\ input.checks[2] \notin input.fails
    /\ output.result.checks[Len(output.result.checks)].value = "success"

\* C13: run_checks raises one grouped failure, with every check run and the
\* status code, response result and elapsed time recorded, exactly when some
\* check failed; run_test gives it status failure and adds nothing to result.errors.
C13_GroupedFailure ==
    (pc # "call" /\ input.fn = "run_checks") =>
        LET failed == \E i \in DOMAIN input.checks : input.checks[i] \in input.fails
        IN /\ (output.raised # "none") <=> failed
           /\ Len(output.errors) = IF failed THEN 1 ELSE 0
           /\ failed =>
                 /\ output.errors[1].grouped =
                        SelectSeq(input.checks, LAMBDA c : c \in input.fails)
                 /\ Len(output.result.checks) = Len(input.result.checks) + Len(input.checks)
                 /\ output.recorded.status_code = input.response.status_code
                 /\ output.recorded.response_error_result.kind # "none"
                 /\ output.recorded.elapsed_time[1] = input.response.elapsed
           /\ pc = "classified" =>
                 /\ inner[Len(inner)].type = "AfterExecution"
                 /\ inner[Len(inner)].status = "failure"
                 /\ result.errors = input.result.errors
                 /\ ~result.is_errored

C13_Witness ==
    /\ pc = "classified" /\ input.fn = "run_checks"
    /\ Cardinality({i \in DOMAIN input.checks : input.checks[i] \in input.fails}) >= 2
    /\ inner[Len(inner)].status = "failure"

\* C14: after update_case_header every case header whose name (header names
\* compare without regard to case) is a session header name has the session's
\* value, every other case header keeps its value, the case has the same
\* header names as before, and the session's headers are unchanged.
C14_SessionHeaderWins ==
    (pc = "returned" /\ input.fn = "update_case_header") =>
        LET before == input.case.headers
            after == output.case.headers
        IN /\ after.none = before.none
           /\ DOMAIN after.d = DOMAIN before.d
           /\ \A h \in DOMAIN before.d :
                 after.d[h] = IF Lower(h) \in DOMAIN input.session_headers
                              THEN input.session_headers[Lower(h)]
                              ELSE before.d[h]
           /\ output.session_headers = input.session_headers
           /\ [output.case EXCEPT !.headers = before] = input.case

\* one header of the case is overridden, one is kept, one session header is not in the case
C14_Witness ==
    /\ pc = "returned" /\ input.fn = "update_case_header"
    /\ DOMAIN input.case.headers.d = {"User-Agent", "X-Request-Id"}
    /\ DOMAIN input.session_headers = {"user-agent", "authorization"}
    /\ output.case.headers.d["User-Agent"] = "schemathesis"
    /\ output.case.headers.d["X-Request-Id"] = "gen"

\* C15: filter_path_parameters accepts a mapping exactly when none of its
\* values is a list or a mapping and none is the string "."; it rejects
\* {"id": "."} and {"id": ["x"]} and accepts {"id": "abc"}.
C15_PathParameterFilter ==
    (pc = "returned" /\ input.fn = "strategy_filter" /\ input.parameter = "path_parameters") =>
        LET values == {input.value.items[i][2] : i \in DOMAIN input.value.items}
            Id == PyStr(Text.id)
        IN /\ output.accepted <=>
                 /\ \A a \in values : a.type # "list" /\ a.type # "dict"
                 /\ \A a \in values : ~(a.type = "str" /\ a.v = Text.dot)
           /\ input.value = PyDict(<< <<Id, PyStr(Text.dot)>> >>) => ~output.accepted
           /\ input.value = PyDict(<< <<Id, PyList(<<PyStr(Text.x)>>)>> >>) => ~output.accepted
           /\ input.value = PyDict(<< <<Id, PyStr(Text.abc)>> >>) => output.accepted

\* a mapping with a good first value is rejected for its composite second value
C15_Witness ==
    /\ pc = "returned" /\ input.fn = "strategy_filter" /\ input.parameter = "path_parameters"
    /\ Len(input.value.items) = 2
    /\ input.value.items[1][2] = PyStr(Text.abc)
    /\ input.value.items[2][2].type = "list"
    /\ ~output.accepted

\* C16: the filter on generated headers and on generated cookies accepts a
\* value exactly when it is a mapping whose every name and every value is a
\* non-empty ASCII-encodable string without invalid characters; it accepts
\* {"A": "b"} and rejects {"A": 1}.
C16_HeaderCookieFilter ==
    (pc = "returned" /\ input.fn = "strategy_filter"
        /\ input.parameter \in {"headers", "cookies"}) =>
        LET Good(a) == /\ a.type = "str"
                       /\ a.v # <<>>
                       /\ \A i \in DOMAIN a.v : a.v[i] < AsciiLimit /\ a.v[i] \notin InvalidHeaderChars
        IN /\ output.accepted <=>
                 /\ input.value.type = "dict"
                 /\ \A i \in DOMAIN input.value.items :
                       Good(input.value.items[i][1]) /\ Good(input.value.items[i][2])
           /\ input.value = PyDict(<< <<PyStr(Text.a), PyStr(Text.b)>> >>) => output.accepted
           /\ input.value = PyDict(<< <<PyStr(Text.a), PyInt>> >>) => ~output.accepted

\* a cookie mapping is rejected for an empty value
C16_Witness ==
    /\ pc = "returned" /\ input.fn = "strategy_filter" /\ input.parameter = "cookies"
    /\ input.value = PyDict(<< <<PyStr(Text.a), PyStr(Text.b)>>, <<PyStr(Text.b), PyStr(<<>>)>> >>)
    /\ ~output.accepted

RECURSIVE NestedValues(_)
\* item and everything inside item's dict values and list elements
NestedValues(item) ==
    {item} \cup UNION {NestedValues(IF item.type = "dict" THEN item.items[i][2] ELSE item.items[i]) :
                          i \in DOMAIN item.items}

\* C17: is_multipart(item) is true exactly when item is a bytes value or a
\* bytes value occurs at some depth in its dict values or list elements;
\* true for b"x" and {"A": b"x"}, false for {"A": "x"} and None.
C17_IsMultipart ==
    (pc = "returned" /\ input.fn = "is_multipart") =>
        /\ output.multipart <=> \E a \in NestedValues(input.item) : a.type = "bytes"
        /\ input.item = PyBytes(Text.x) => output.multipart
        /\ input.item = PyDict(<< <<PyStr(Text.a), PyBytes(Text.x)>> >>) => output.multipart
        /\ input.item = PyDict(<< <<PyStr(Text.a), PyStr(Text.x)>> >>) => ~output.multipart
        /\ input.item = PyNone => ~output.multipart

\* bytes two levels down, in a list inside a dict
C17_Witness ==
    /\ pc = "returned" /\ input.fn = "is_multipart"
    /\ input.item = PyDict(<< <<PyStr(Text.a), PyList(<<PyStr(Text.x), PyBytes(Text.x)>>)>> >>)
    /\ output.multipart

\* C18: for an endpoint with validation on, method GET and a body schema,
\* run_test emits BeforeExecution and then AfterExecution with status error
\* and a result whose only error is the InvalidSchema, no case of the endpoint
\* is executed, and without exit_first the event is followed by the loop over
\* the remaining endpoints.
C18_InvalidSchemaEndpoint ==
    LET Invalid(i) == /\ args.validate_schema
                      /\ args.schema[i].method = "GET"
                      /\ args.schema[i].body
    IN /\ \A k \in DOMAIN inner :
             (inner[k].type = "BeforeExecution" /\ Invalid(inner[k].endpoint) /\ k < Len(inner)) =>
                 /\ inner[k + 1].type = "AfterExecution"
                 /\ inner[k + 1].endpoint = inner[k].endpoint
                 /\ inner[k + 1].status = "error"
                 /\ inner[k + 1].results[1].errors =
                        <<[exception |-> "InvalidSchema", example |-> <<>>]>>
                 /\ inner[k + 1].results[1].checks = <<>>
       /\ \A i \in DOMAIN args.schema :
             (Invalid(i) /\ lastRun.ran) => lastRun.sent.endpoint # args.schema[i]
       /\ (/\ ~args.exit_first
           /\ Len(inner) > 0
           /\ inner[Len(inner)].type = "AfterExecution"
           /\ Invalid(inner[Len(inner)].endpoint)) =>
               /\ \E j \in DOMAIN stream : stream[j] = inner[Len(inner)]
               /\ stream[Len(stream)] = inner[Len(inner)] => pc = "loop"

\* the endpoint after the invalid one is started
C18_Witness ==
    /\ Len(stream) = 4
    /\ args.validate_schema /\ args.schema[1] = GetItems
    /\ stream[3].type = "AfterExecution" /\ stream[3].status = "error"
    /\ stream[3].results[1].errors[1].exception = "InvalidSchema"
    /\ stream[4].type = "BeforeExecution" /\ stream[4].endpoint = 2

\* C19: in a run over WSGI the test body is entered as over the network: the
\* test of a valid endpoint does not end with status error for a TypeError
\* while no check of any case has been recorded.
C19_WsgiRunsCases ==
    args.app =>
        \A k \in DOMAIN inner :
            (/\ inner[k].type = "AfterExecution"
             /\ make_test_or_exception(args.schema[inner[k].endpoint], args.validate_schema) = "test") =>
                ~(/\ inner[k].status = "error"
                  /\ inner[k].results[1].checks = <<>>
                  /\ \E i \in DOMAIN inner[k].results[1].errors :
                        inner[k].results[1].errors[i].exception = "TypeError")

\* C20: every transport call appends an Interaction to the endpoint's
\* TestResult: once a call for the endpoint has returned a response, the
\* result holds at least one interaction.
C20_OneInteractionPerCall ==
    (/\ lastRun.ran /\ lastRun.dispatched
     /\ lastRun.raised \notin {"ConnectionError", "KeyboardInterrupt"}
     /\ lastRun.sent.endpoint = result.endpoint) =>
        Len(result.interactions) >= 1

\* C21: whatever the interleaving of the workers, no append is lost or
\* duplicated: the set holds each result as many times as it was appended,
\* and once every worker is done it holds the multiset of all their results.
C21_NoAppendLost ==
    pc = "pool" =>
        \A r \in {TestResult(e) : e \in Endpoints} :
            Cardinality({i \in DOMAIN results : results[i] = r})
                = Cardinality({i \in DOMAIN input.items :
                                 input.items[i] = r /\ input.phase[i] = "done"})

\* two workers were between load and append at the same time, and both results are in the set
C21_Witness ==
    /\ pc = "pool"
    /\ Len(input.items) = 2
    /\ input.owner[1] # input.owner[2]
    /\ input.items[1] = input.items[2]
    /\ input.loaded[1] = 0 /\ input.loaded[2] = 0
    /\ input.phase[1] = "done" /\ input.phase[2] = "done"
    /\ Len(results) = 2

\* C22: with exit_first, once an endpoint's run has ended with failure or
\* error, the stream is ended by one Finished event whose results are the
\* TestResults of the endpoints up to and including that one, in order.
C22_ExitFirstFinished ==
    args.exit_first =>
        \A a \in FailedRuns :
            /\ pc = "done"
            /\ Indices("Finished") = {Len(stream)}
            /\ LET rs == stream[Len(stream)].results
               IN /\ Len(rs) = a
                  /\ \A i \in 1..a : rs[i].endpoint = args.schema[i]
                  /\ \E k \in DOMAIN inner :
                        /\ inner[k].type = "AfterExecution" /\ inner[k].endpoint = a
                        /\ rs[a] = inner[k].results[1]

\* the second endpoint fails after the first passed
C22_Witness ==
    /\ args.exit_first /\ Len(args.schema) = 2
    /\ pc = "done"
    /\ stream[Len(stream)].type = "Finished"
    /\ Len(stream[Len(stream)].results) = 2
    /\ is_passed(stream[Len(stream)].results[1])
    /\ has_failures(stream[Len(stream)].results[2])

\* C23: without cancellation and without exit_first the stream is Initialized,
\* then for each endpoint in schema order BeforeExecution immediately followed
\* by AfterExecution of the same endpoint, then Finished, once and last.
C23_StreamShape ==
    (~args.exit_first /\ Indices("Interrupted") = {}) =>
        LET n == IF Indices("InternalError") # {} THEN Len(stream) - 1 ELSE Len(stream)
        IN /\ Indices("InternalError") \subseteq {Len(stream)}
           /\ n >= 1 => stream[1].type = "Initialized"
           /\ \A k \in 2..n :
                 \/ /\ k % 2 = 0 /\ k \div 2 <= Len(args.schema)
                    /\ stream[k].type = "BeforeExecution" /\ stream[k].endpoint = k \div 2
                 \/ /\ k % 2 = 1
                    /\ stream[k].type = "AfterExecution" /\ stream[k].endpoint = k \div 2
                    /\ stream[k].results[1].endpoint = args.schema[k \div 2]
                 \/ /\ k = 2 * Len(args.schema) + 2 /\ k = Len(stream)
                    /\ stream[k].type = "Finished"
           /\ Cardinality(Indices("Finished")) <= 1
           /\ (pc = "done" /\ Indices("InternalError") = {}) => Indices("Finished") # {}

C23_Witness ==
    /\ ~args.exit_first /\ Len(args.schema) = 2
    /\ Len(stream) = 6
    /\ stream[5].type = "AfterExecution" /\ stream[5].status = "failure"
    /\ stream[3].type = "AfterExecution" /\ stream[3].status = "error"
    /\ stream[6].type = "Finished"

\* C24: a KeyboardInterrupt during a case makes run_test yield Interrupted in
\* place of AfterExecution, no TestResult of that endpoint is appended, and no
\* BeforeExecution or AfterExecution event follows.
C24_InterruptedEndpoint ==
    /\ (lastRun.ran /\ lastRun.raised = "KeyboardInterrupt") =>
          inner[Len(inner)].type = "Interrupted"
    /\ \A k \in DOMAIN inner :
          inner[k].type = "Interrupted" =>
              /\ k = Len(inner)
              /\ inner[k - 1].type = "BeforeExecution"
              /\ inner[k - 1].endpoint = inner[k].endpoint
              /\ Len(results) = inner[k].endpoint - 1
              /\ \A i \in DOMAIN results : results[i].endpoint # args.schema[inner[k].endpoint]
              /\ \A i \in DOMAIN stream :
                    stream[i].type \in {"BeforeExecution", "AfterExecution"} =>
                        \E j \in Indices("Interrupted") : i < j

\* the first of two endpoints is interrupted after a case whose check was recorded
C24_Witness ==
    /\ pc = "done"
    /\ Len(args.schema) = 2
    /\ inner # <<>>
    /\ inner[Len(inner)].type = "Interrupted"
    /\ inner[Len(inner)].endpoint = 1
    /\ Len(result.checks) = 1
    /\ results = <<>>

\* C25: a Flaky report ends the run of the endpoint with status error, the
\* errored flag set and one Flaky error, whose example is that of the last
\* recorded Check or none; the result counts as errored and not as failed.
C25_FlakyIsErrored ==
    \A k \in DOMAIN inner :
        (/\ inner[k].type = "AfterExecution"
         /\ \E i \in DOMAIN inner[k].results[1].errors :
               inner[k].results[1].errors[i].exception = "Flaky") =>
            LET r == inner[k].results[1]
            IN /\ inner[k].status = "error"
               /\ r.is_errored
               /\ Len(r.errors) = 1
               /\ r.errors[1].example = IF r.checks = <<>> THEN <<>>
                                         ELSE <<r.checks[Len(r.checks)].example>>
               /\ errored_count(<<r>>) = 1
               /\ failed_count(<<r>>) = 0

\* a flaky result that holds a failure Check
C25_Witness ==
    /\ Len(inner) >= 2
    /\ inner[Len(inner)].type = "AfterExecution"
    /\ inner[Len(inner)].results[1].errors # <<>>
    /\ inner[Len(inner)].results[1].errors[1].exception = "Flaky"
    /\ has_failures(inner[Len(inner)].results[1])

\* C26: in every configuration a storage failure after the transport call (a
\* body that is not JSON or not a JSON object) is swallowed: nothing raised by
\* check_if_storing_required leaves network_test, so the checks still run.
C26_StorageFailureSwallowed ==
    (lastRun.ran /\ lastRun.dispatched) =>
        lastRun.raised \notin {"JSONDecodeError", "AttributeError"}

\* C28: with no dependency map (None or empty) no case is changed, nothing is
\* read from the store and nothing is written to it, /notes included.
C28_OnlyDeclaredMap ==
    args.execute_in_order \in {"none", "empty"} =>
        /\ store = EmptyDict
        /\ lastRun.ran =>
              /\ ~lastRun.missing
              /\ lastRun.sent = update_case_header(GeneratedCase(lastRun.sent.endpoint),
                                                   SessionHeaders).case

\* the value of case.<typ>[field], <<>> when the location is None or lacks the field
FieldOf(case, typ, field) ==
    LET loc == CASE typ = "path_parameters" -> case.path_parameters
                 [] typ = "query" -> case.query
                 [] OTHER -> case.body
    IN IF ~loc.none /\ field \in DOMAIN loc.d THEN <<loc.d[field]>> ELSE <<>>

\* C27: every declared field whose producer value is in the store (and whose
\* location the case has) is overwritten with it even when another declared
\* field fails to resolve; a field whose resolution fails keeps its value.
C27_RulesResolvedIndependently ==
    (pc # "call" /\ input.fn = "check_if_change_required") =>
        \A i \in DOMAIN input.required :
            LET r == input.required[i]
                key == Key(r.depends[1], r.depends[2])
            IN IF is_stored(input.store, key, r.depends[3]) /\ ~FieldIsNone(input.case, r.typ)
               THEN FieldOf(output.case, r.typ, r.field)
                       = <<get_store_result(input.store, key, r.depends[3])>>
               ELSE FieldOf(output.case, r.typ, r.field) = FieldOf(input.case, r.typ, r.field)

\* C29: the strategy of every location that has one is schemaHook(globalHook(base)),
\* each hook applied only where one is registered; a location without a hook
\* keeps its strategy, and the body of a validated GET gets no strategy and no hook.
C29_HooksInTwoPasses ==
    (pc # "call" /\ input.fn = "_get_case_strategy" /\ output.raised = "none") =>
        LET removed == IF input.validate_schema /\ input.endpoint.method = "GET"
                       THEN {"body"} ELSE {}
        IN /\ DOMAIN output.strategies = input.locations \ removed
           /\ \A key \in DOMAIN output.strategies :
                 output.strategies[key] =
                     <<key>> \o (IF key \in input.global_hooks THEN <<"global">> ELSE <<>>)
                            \o (IF key \in input.schema_hooks THEN <<"schema">> ELSE <<>>)

\* a location with both hooks next to one with none, and a GET whose body is
\* generated because the schema is not validated
C29_Witness ==
    /\ pc = "returned" /\ input.fn = "_get_case_strategy"
    /\ output.raised = "none"
    /\ input.endpoint.method = "GET" /\ ~input.validate_schema
    /\ DOMAIN output.strategies = {"query", "headers", "body"}
    /\ output.strategies["query"] = <<"query", "global", "schema">>
    /\ output.strategies["headers"] = <<"headers">>
    /\ output.strategies["body"] = <<"body", "schema">>

\* C30: is_valid_query accepts a value only if it is a mapping whose keys are
\* strings and in which no key and no value contains a lone surrogate; every
\* mapping with a surrogate in a key or in a value is rejected.
C30_QueryFilter ==
    (pc = "returned" /\ input.fn = "strategy_filter" /\ input.parameter = "query") =>
        (output.accepted =>
            /\ input.value.type = "dict"
            /\ \A i \in DOMAIN input.value.items :
                  /\ input.value.items[i][1].type = "str"
                  /\ \A a \in NestedValues(input.value.items[i][1])
                               \cup NestedValues(input.value.items[i][2]) : ~is_surrogate(a))

\* C31: in a WSGI call every cookie of the case is set on the client at the
\* call, and none of them is left on the client once call_wsgi is left,
\* whether the call returned a response or raised.
C31_CookiesSetAndCleared ==
    (pc = "returned" /\ input.fn = "call_wsgi" /\ input.app /\ ~input.cookies.none) =>
        /\ \A k \in DOMAIN input.cookies.d :
              k \in DOMAIN output.at_call /\ output.at_call[k] = input.cookies.d[k]
        /\ \A k \in DOMAIN input.cookies.d : k \notin DOMAIN output.jar

\* C32: the status of every AfterExecution event agrees with the counts of its
\* result: success is counted by passed_count only, failure by failed_count
\* only and error by errored_count only.
C32_StatusAgreesWithCounts ==
    \A k \in DOMAIN inner :
        inner[k].type = "AfterExecution" =>
            LET r == inner[k].results[1]
                counts == <<passed_count(<<r>>), failed_count(<<r>>), errored_count(<<r>>)>>
            IN CASE inner[k].status = "success" -> counts = <<1, 0, 0>>
                 [] inner[k].status = "failure" -> counts = <<0, 1, 0>>
                 [] OTHER -> counts = <<0, 0, 1>>

\* C33: the runner is a thread-pool runner iff workers_num > 1 and a WSGI
\* variant iff the schema has an app; it is given the dependency map iff
\* workers_num <= 1, so with workers_num > 1 the resolution of a case is what
\* it is without any map, whatever rules the map declares.
C33_RunnerSelection ==
    (pc = "returned" /\ input.fn = "select_runner") =>
        /\ output.runner.pool <=> input.workers_num > 1
        /\ output.runner.wsgi <=> input.schema_app
        /\ input.workers_num <= 1 => output.runner.execute_in_order = input.execute_in_order
        /\ input.workers_num > 1 =>
              /\ output.runner.execute_in_order = "none"
              /\ output.resolution
                    = check_if_change_required(input.case, ExecuteInOrder("none"), input.store)

\* two workers and a map whose rule for GET /notes/{note_id} would have been
\* swallowed: the case is resolved as without a map
C33_Witness ==
    /\ pc = "returned" /\ input.fn = "select_runner"
    /\ input.workers_num = 2 /\ ~input.schema_app
    /\ input.execute_in_order = "notes"
    /\ input.case = GeneratedCase(GetNote) /\ input.store = EmptyDict
    /\ output.runner.pool /\ ~output.runner.wsgi
    /\ output.resolution.raised = "MissingDependency"

\* the one payload entry expected: non-empty form data under form_key, else a
\* body holding bytes at some depth under "data", else the body under "json"
ExpectedPayload(case, form_key) ==
    IF case.form_data.type = "dict" /\ case.form_data.items # <<>>
    THEN <<form_key, case.form_data>>
    ELSE IF \E a \in NestedValues(case.body) : a.type = "bytes"
    THEN <<"data", case.body>>
    ELSE <<"json", case.body>>

\* C34: both conversions carry exactly one payload key: non-empty form data
\* wins over the body, else a body with bytes is sent as data, else as json;
\* as_werkzeug_kwargs leaves the headers of the case as they were, and a
\* transport header overrides the header of the case with the same name.
C34_OnePayload ==
    (pc = "returned" /\ input.fn = "as_kwargs") =>
        LET req == output.requests
            wz == output.werkzeug.kwargs
            er == ExpectedPayload(input.case, "files")
            ew == ExpectedPayload(input.case, "data")
        IN /\ DOMAIN req \cap {"files", "data", "json"} = {er[1]}
           /\ req[er[1]] = er[2]
           /\ DOMAIN wz \cap {"files", "data", "json"} = {ew[1]}
           /\ wz[ew[1]] = ew[2]
           /\ output.werkzeug.case_headers = input.case.headers
           /\ ~input.headers.none =>
                 \A h \in DOMAIN input.headers.d : wz.headers.d[h] = input.headers.d[h]
           /\ ~input.case.headers.none =>
                 \A h \in DOMAIN input.case.headers.d :
                     (input.headers.none \/ h \notin DOMAIN input.headers.d) =>
                         wz.headers.d[h] = input.case.headers.d[h]

\* form data next to a body with bytes, and a transport header that overrides
\* a header of the case
C34_Witness ==
    /\ pc = "returned" /\ input.fn = "as_kwargs"
    /\ input.case.form_data.items # <<>>
    /\ input.case.body = PyDict(<< <<PyStr(Text.a), PyBytes(Text.x)>> >>)
    /\ "files" \in DOMAIN output.requests
    /\ "data" \in DOMAIN output.werkzeug.kwargs
    /\ input.case.headers = Dict([h \in {"X-Request-Id"} |-> "gen"])
    /\ output.werkzeug.kwargs.headers.d["X-Request-Id"] = "token"
    /\ output.werkzeug.kwargs.headers.d["Content-Type"] = "multipart/form-data"

\* the Checks of a result set with a given name, as <<result, check>> positions
ChecksNamed(rs, name) ==
    {p \in {<<j, i>> : j \in DOMAIN rs, i \in 1..MaxChecks + 1} :
        p[2] \in DOMAIN rs[p[1]].checks /\ rs[p[1]].checks[p[2]].name = name}

\* C35: total has an entry exactly for the check names that occur; its "total"
\* is the number of Checks with the name across all results and the sum of its
\* success, failure and error counts, each the number of Checks with the name
\* and that status; computing it changes no result.
C35_Total ==
    (pc = "returned" /\ input.fn = "total") =>
        LET rs == input.results
            names == {rs[j].checks[i].name : <<j, i>> \in
                         {p \in {<<j, i>> : j \in DOMAIN rs, i \in 1..MaxChecks + 1} :
                             p[2] \in DOMAIN rs[p[1]].checks}}
            count(name, status) ==
                IF status \in DOMAIN output.total[name] THEN output.total[name][status] ELSE 0
        IN /\ DOMAIN output.total = names
           /\ \A name \in names :
                 /\ output.total[name]["total"] = Cardinality(ChecksNamed(rs, name))
                 /\ output.total[name]["total"]
                       = count(name, "success") + count(name, "failure") + count(name, "error")
                 /\ \A status \in {"success", "failure", "error"} :
                       count(name, status) =
                           Cardinality({p \in ChecksNamed(rs, name) :
                                           rs[p[1]].checks[p[2]].value = status})
                 /\ DOMAIN output.total[name] \subseteq {"success", "failure", "error", "total"}
           /\ output.results = input.results

\* two results with Checks of one name and different statuses, the other name absent
C35_Witness ==
    /\ pc = "returned" /\ input.fn = "total"
    /\ Len(input.results) = 2
    /\ DOMAIN output.total = {"not_a_server_error"}
    /\ output.total["not_a_server_error"]
          = [k \in {"success", "failure", "total"} |-> CASE k = "success" -> 2
                                                         [] k = "failure" -> 1
                                                         [] OTHER -> 3]

====
